---- MODULE Spec2Model ----
(***************************************************************************)
(* A model of the l8ql query pipeline: the clause parser (package parser), *)
(* the resolver and evaluator (package interpreter) and the comparator     *)
(* kernels (package comparators).                                          *)
(*                                                                         *)
(* Go strings are sequences of one-character strings; an index is 0-based  *)
(* as in the source, and s[a:b] is Slice(s, a, b).  A Go (value, error)    *)
(* pair is a record [e |-> <error>, v |-> <value>] with e = NoErr for nil. *)
(***************************************************************************)
EXTENDS Integers, Sequences, FiniteSets, TLC

VARIABLES
    comparators,   \* parser.comparators: the ordered operator list (package state)
    text,          \* the query text handed to NewQuery
    pquery,        \* parser.PQuery.pquery: the parsed l8api.L8Query
    perr,          \* the error NewQuery returned
    query,         \* interpreter.Query built by NewFromQuery (Nil before)
    qerr,          \* the error NewFromQuery returned
    lastRecord,    \* the record of the last Query.Match call
    lastMatch,     \* what that call did: "none", "true", "false" or "panic"
    lastErr,       \* the error Query.match produced in that call
    list,          \* Filter: the input list
    only,          \* Filter: onlySelectedColumns
    idx,           \* Filter: the number of elements its loop went through
    result,        \* Filter: the result slice
    str,           \* StringExpression(pquery.Criteria)
    reparsed,      \* parseExpression(str)
    pc,            \* position of the caller
    param,         \* the argument of the last inspection or kernel call
    answer,        \* what that call returned
    table,         \* interpreter.comparables as initComparables fills it
    threads        \* the goroutines that build and evaluate queries at once

\* the state of the inspection calls and of the concurrent callers
others == <<param, answer, table, threads>>

vars == <<comparators, text, pquery, perr, query, qerr, lastRecord, lastMatch,
          lastErr, list, only, idx, result, str, reparsed, pc, others>>

---------------------------------------------------------------------------
(* Bounds of the model. *)

\* the limit clause holds at most this many characters
MaxDigits == 4
\* a where clause is built from at most this many tokens
MaxTokens == 4
\* Filter is called with lists of at most this length
MaxList == 3

---------------------------------------------------------------------------
(* Go strings. *)

NoErr == "nil"
Nil == [tag |-> "nil"]

Ok(v) == [e |-> NoErr, v |-> v]
Fail(msg) == [e |-> msg, v |-> Nil]

Min(S) == CHOOSE x \in S : \A y \in S : x <= y
Max(S) == CHOOSE x \in S : \A y \in S : x >= y

\* s[a:b]
Slice(s, a, b) == SubSeq(s, a + 1, b)

\* strings.Index(s, sub)
Index(s, sub) ==
    LET First(C) == IF C = {} THEN -1 ELSE Min(C)
    IN  First({i \in 0..(Len(s) - Len(sub)) : SubSeq(s, i + 1, i + Len(sub)) = sub})

\* strings.LastIndex(s, sub)
LastIndex(s, sub) ==
    LET Last(C) == IF C = {} THEN -1 ELSE Max(C)
    IN  Last({i \in 0..(Len(s) - Len(sub)) : SubSeq(s, i + 1, i + Len(sub)) = sub})

\* strings.Contains(s, sub)
Contains(s, sub) == Index(s, sub) # -1

UpperLetters == <<"A","B","C","D","E","F","G","H","I","J","K","L","M",
                  "N","O","P","Q","R","S","T","U","V","W","X","Y","Z">>
LowerLetters == <<"a","b","c","d","e","f","g","h","i","j","k","l","m",
                  "n","o","p","q","r","s","t","u","v","w","x","y","z">>

LowerChar(c) ==
    LET At(C) == IF C = {} THEN c ELSE LowerLetters[CHOOSE i \in C : TRUE]
    IN  At({i \in 1..Len(UpperLetters) : UpperLetters[i] = c})

\* a ToLower that keeps the letter case
ToLowerKeep(s) == s

\* strings.ToLower(s)
ToLower(s) == [i \in 1..Len(s) |-> LowerChar(s[i])]

IsSpace(c) == c \in {" ", "\t", "\n"}

\* strings.TrimSpace(s)
TrimSpace(s) ==
    LET Cut(C) == IF C = {} THEN <<>> ELSE SubSeq(s, Min(C), Max(C))
    IN  Cut({i \in 1..Len(s) : ~IsSpace(s[i])})

Digits == <<"0","1","2","3","4","5","6","7","8","9">>

IsDigit(c) == \E i \in 1..Len(Digits) : Digits[i] = c

DigitVal(c) == (CHOOSE i \in 1..Len(Digits) : Digits[i] = c) - 1

RECURSIVE DecVal(_)
DecVal(s) == IF s = <<>> THEN 0
             ELSE 10 * DecVal(SubSeq(s, 1, Len(s) - 1)) + DigitVal(s[Len(s)])

\* strconv.Atoi(s): an optional sign, then decimal digits.  Atoi also fails on
\* a value outside the 64-bit int range; the texts of the model hold at most
\* MaxDigits + 1 characters here, so that case is out of the model's reach.
Atoi(s) ==
    LET Value(negative, body) ==
            IF body = <<>> \/ \E i \in 1..Len(body) : ~IsDigit(body[i])
            THEN [ok |-> FALSE, v |-> 0]
            ELSE [ok |-> TRUE, v |-> IF negative THEN 0 - DecVal(body) ELSE DecVal(body)]
    IN  IF s # <<>> /\ s[1] \in {"+", "-"} THEN Value(s[1] = "-", Tail(s))
        ELSE Value(FALSE, s)

\* strings.Split(s, sep) for a one-character separator
RECURSIVE Split(_, _)
Split(s, sep) ==
    LET At(i) == IF i = -1 THEN <<s>>
                 ELSE <<Slice(s, 0, i)>> \o Split(Slice(s, i + 1, Len(s)), sep)
    IN  At(Index(s, <<sep>>))

\* the concatenation of a sequence of strings
RECURSIVE Concat(_)
Concat(ss) == IF ss = <<>> THEN <<>> ELSE Head(ss) \o Concat(Tail(ss))

---------------------------------------------------------------------------
(* package parser: comparator leaves (Comparator.go). *)

Eq    == <<"=">>
Neq   == <<"!", "=">>
GT    == <<">">>
LT    == <<"<">>
GTEQ  == <<">", "=">>
LTEQ  == <<"<", "=">>
OpIN    == <<" ", "i", "n", " ">>
OpNOTIN == <<" ", "n", "o", "t", " ", "i", "n", " ">>

\* an operator list with the one-character tokens first
ShortestFirstComparators == <<Eq, GT, LT, GTEQ, LTEQ, Neq, OpNOTIN, OpIN>>

\* what initComparators appends, in its order
OrderedComparators == <<GTEQ, LTEQ, Neq, Eq, GT, LT, OpNOTIN, OpIN>>

\* validateValue(ws): "" when the operand holds no parenthesis
validateValue(ws) ==
    IF Index(ws, <<"(">>) # -1 \/ Index(ws, <<")">>) # -1 THEN "illegal brackets" ELSE ""

\* stripQuotes(s)
stripQuotes(s) ==
    IF Len(s) >= 2 /\ s[1] = "\"" /\ s[Len(s)] = "\""
    THEN Slice(s, 1, Len(s) - 1)
    ELSE ToLower(s)

\* the body of NewCompare's loop for the operators ops[k..]
RECURSIVE NewCompareFrom(_, _, _)
NewCompareFrom(ws, ops, k) ==
    LET Validated(cmp, left, right) ==
            IF left # "" THEN Fail(left)
            ELSE IF right # "" THEN Fail(right)
            ELSE Ok(cmp)
        Validate(cmp) == Validated(cmp, validateValue(cmp.Left), validateValue(cmp.Right))
        At(op, loc) ==
            IF loc # -1
            THEN Validate([Left  |-> TrimSpace(ToLower(Slice(ws, 0, loc))),
                           Oper  |-> op,
                           Right |-> stripQuotes(TrimSpace(Slice(ws, loc + Len(op), Len(ws))))])
            ELSE NewCompareFrom(ws, ops, k + 1)
    IN  IF k > Len(ops) THEN Fail("Cannot find comparator operation")
        ELSE At(ops[k], Index(ws, ops[k]))

\* NewCompare(ws), reading the package's operator list
NewCompare(ws) == NewCompareFrom(ws, comparators, 1)

\* StringComparator(this)
StringComparator(this) == this.Left \o this.Oper \o this.Right

---------------------------------------------------------------------------
(* package parser: condition chains (Condition.go). *)

And == <<" ", "a", "n", "d", " ">>
Or  == <<" ", "o", "r", " ">>
NoOp == <<>>
MAX_EXPRESSION_SIZE == 999999

\* the first of " and " / " or " in ws: [op, loc], loc = MAX_EXPRESSION_SIZE
\* when there is none (NewCondition and getFirstConditionOp share this scan)
FirstOp(ws) ==
    LET Second(loc, op, or) ==
            IF or # -1 /\ or < loc THEN [op |-> Or, loc |-> or]
            ELSE [op |-> op, loc |-> loc]
        Pick(and, or) ==
            IF and # -1 THEN Second(and, And, or)
            ELSE Second(MAX_EXPRESSION_SIZE, NoOp, or)
        Scan(wsLower) == Pick(Index(wsLower, And), Index(wsLower, Or))
    IN  Scan(ToLower(ws))

\* NewCondition(ws)
RECURSIVE NewCondition(_)
NewCondition(ws) ==
    LET Linked(c, op, next) ==
            IF next.e # NoErr THEN Fail(next.e)
            ELSE Ok([Comparator |-> c, Oper |-> op, Next |-> next.v])
        First(c, f) ==
            IF c.e # NoErr THEN Fail(c.e)
            ELSE IF f.loc = MAX_EXPRESSION_SIZE
            THEN Ok([Comparator |-> c.v, Oper |-> NoOp, Next |-> Nil])
            ELSE Linked(c.v, f.op, NewCondition(Slice(ws, f.loc + Len(f.op), Len(ws))))
        At(f) == First(NewCompare(IF f.loc = MAX_EXPRESSION_SIZE THEN ws
                                  ELSE Slice(ws, 0, f.loc)), f)
    IN  At(FirstOp(ws))

\* getLastConditionOp(ws): [e, op, loc]
getLastConditionOp(ws) ==
    LET Result(loc, op) ==
            IF loc = -1 THEN [e |-> "No last condition was found.", op |-> NoOp, loc |-> 0]
            ELSE [e |-> NoErr, op |-> op, loc |-> loc]
        Second(loc, op, or) == IF or > loc THEN Result(or, Or) ELSE Result(loc, op)
        Pick(and, or) == IF and > -1 THEN Second(and, And, or) ELSE Second(-1, NoOp, or)
        Scan(wsLower) == Pick(LastIndex(wsLower, And), LastIndex(wsLower, Or))
    IN  Scan(ToLower(ws))

\* getFirstConditionOp(ws): [e, op, loc]
getFirstConditionOp(ws) ==
    LET At(f) == IF f.loc = MAX_EXPRESSION_SIZE
                 THEN [e |-> "No first condition was found.", op |-> NoOp, loc |-> 0]
                 ELSE [e |-> NoErr, op |-> f.op, loc |-> f.loc]
    IN  At(FirstOp(ws))

\* toString(this, buff): what it appends to the buffer
RECURSIVE toString(_)
toString(this) ==
    (IF this.Comparator # Nil THEN StringComparator(this.Comparator) ELSE <<>>)
    \o (IF this.Next # Nil THEN this.Oper \o toString(this.Next) ELSE <<>>)

\* StringCondition(this)
StringCondition(this) == <<"(">> \o toString(this) \o <<")">>

---------------------------------------------------------------------------
(* package parser: expression trees (Expression.go). *)

\* getBO(ws)
getBO(ws) == Index(ws, <<"(">>)

\* getBE's loop from position i with the bracket count so far
RECURSIVE getBEFrom(_, _, _)
getBEFrom(ws, i, count) ==
    LET At(c) == IF c = 0 THEN [e |-> NoErr, v |-> i] ELSE getBEFrom(ws, i + 1, c)
    IN  IF i >= Len(ws) THEN [e |-> "Missing close bracket", v |-> -1]
        ELSE At(IF ws[i + 1] = "(" THEN count + 1
                ELSE IF ws[i + 1] = ")" THEN count - 1
                ELSE count)

\* getBE(ws, bo)
getBE(ws, bo) == getBEFrom(ws, bo, 0)

\* a parseNoBrackets that leaves a connective on the node it returns
parseNoBracketsOpen(ws) ==
    LET Wrap(condition) ==
            IF condition.e # NoErr THEN Fail(condition.e)
            ELSE Ok([Condition |-> condition.v, Child |-> Nil, Next |-> Nil, AndOr |-> And])
    IN  Wrap(NewCondition(ws))

\* parseNoBrackets(ws)
parseNoBrackets(ws) ==
    LET Wrap(condition) ==
            IF condition.e # NoErr THEN Fail(condition.e)
            ELSE Ok([Condition |-> condition.v, Child |-> Nil, Next |-> Nil, AndOr |-> NoOp])
    IN  Wrap(NewCondition(ws))

RECURSIVE parseExpression(_)
RECURSIVE parseWithBrackets(_, _)
RECURSIVE parseBeforeBrackets(_, _)

\* parseWithBrackets(ws, bo)
parseWithBrackets(ws, bo) ==
    LET Linked(child, op, next) ==
            IF next.e # NoErr THEN Fail(next.e)
            ELSE Ok([Condition |-> Nil, Child |-> child, Next |-> next.v, AndOr |-> op])
        Rest(child, be, o) ==
            IF o.e # NoErr THEN Fail(o.e)
            ELSE Linked(child, o.op,
                        parseExpression(Slice(ws, be + 1 + o.loc + Len(o.op), Len(ws))))
        Inside(be, child) ==
            IF child.e # NoErr THEN Fail(child.e)
            ELSE IF be < Len(ws) - 1
            THEN Rest(child.v, be, getFirstConditionOp(Slice(ws, be + 1, Len(ws))))
            ELSE Ok([Condition |-> Nil, Child |-> child.v, Next |-> Nil, AndOr |-> NoOp])
        At(be) == IF be.e # NoErr THEN Fail(be.e)
                  ELSE Inside(be.v, parseExpression(Slice(ws, 1, be.v)))
    IN  At(getBE(ws, bo))

\* parseBeforeBrackets(ws, bo)
parseBeforeBrackets(ws, bo) ==
    LET Linked(expr, op, next) ==
            IF next.e # NoErr THEN Fail(next.e)
            ELSE Ok([expr EXCEPT !.AndOr = op, !.Next = next.v])
        Before(expr, op) ==
            IF expr.e # NoErr THEN Fail(expr.e)
            ELSE Linked(expr.v, op, parseExpression(Slice(ws, bo, Len(ws))))
        At(prefix, o) ==
            IF o.e # NoErr THEN Fail(o.e)
            ELSE Before(parseNoBrackets(Slice(prefix, 0, o.loc)), o.op)
        Prefix(prefix) == At(prefix, getLastConditionOp(prefix))
    IN  Prefix(Slice(ws, 0, bo))

\* parseExpression(ws)
parseExpression(ws0) ==
    LET At(ws, bo) ==
            IF bo = -1 THEN parseNoBrackets(ws)
            ELSE IF bo > 0 THEN parseBeforeBrackets(ws, bo)
            ELSE parseWithBrackets(ws, bo)
        Trimmed(ws) == At(ws, getBO(ws))
    IN  Trimmed(TrimSpace(ws0))

\* StringExpression(this)
RECURSIVE StringExpression(_)
StringExpression(this) ==
    (IF this.Condition # Nil THEN StringCondition(this.Condition) ELSE <<"(">>)
    \o (IF this.Child # Nil THEN StringExpression(this.Child) ELSE <<>>)
    \o (IF this.Condition = Nil THEN <<")">> ELSE <<>>)
    \o (IF this.Next # Nil THEN this.AndOr \o StringExpression(this.Next) ELSE <<>>)

---------------------------------------------------------------------------
(* package parser: the query header (Query.go). *)

Select     == <<"s","e","l","e","c","t">>
From       == <<"f","r","o","m">>
Where      == <<"w","h","e","r","e">>
SortBy     == <<"s","o","r","t","-","b","y">>
Descending == <<"d","e","s","c","e","n","d","i","n","g">>
Ascending  == <<"a","s","c","e","n","d","i","n","g">>
Limit      == <<"l","i","m","i","t">>
Page       == <<"p","a","g","e">>
MatchCase  == <<"m","a","t","c","h","-","c","a","s","e">>
MapReduce  == <<"m","a","p","r","e","d","u","c","e">>

words == <<Select, From, Where, SortBy, Descending, Ascending, Limit, Page,
           MatchCase, MapReduce>>

\* TrimAndLowerNoKeys' loop over the characters from position i
RECURSIVE LowerNoKeysFrom(_, _, _)
LowerNoKeysFrom(sql, i, keyOpen) ==
    LET At(c, open) ==
            <<IF ~open THEN LowerChar(c) ELSE c>> \o LowerNoKeysFrom(sql, i + 1, open)
    IN  IF i > Len(sql) THEN <<>>
        ELSE At(sql[i], IF sql[i] = "[" THEN TRUE ELSE IF sql[i] = "]" THEN FALSE ELSE keyOpen)

\* TrimAndLowerNoKeys(sql)
TrimAndLowerNoKeys(sql) == LowerNoKeysFrom(TrimSpace(sql), 1, FALSE)

\* getBoolTag(str, tag)
getBoolTag(s, tag) == IF Index(s, tag) # -1 THEN "true" ELSE "false"

\* getTag's loop over words[k..], narrowing index2
RECURSIVE getTagEnd(_, _, _, _, _)
getTagEnd(s, tag, index, index2, k) ==
    LET At(t, index3) ==
            IF t # tag /\ index3 > index /\ index3 < index2
            THEN getTagEnd(s, tag, index, index3, k + 1)
            ELSE getTagEnd(s, tag, index, index2, k + 1)
    IN  IF k > Len(words) THEN index2 ELSE At(words[k], Index(s, words[k]))

\* getTag(str, orig, tag)
getTag(s, orig, tag) ==
    LET Content(index) == TrimSpace(Slice(orig, index, getTagEnd(s, tag, index, Len(s), 1)))
        At(index) == IF index = -1 THEN <<>> ELSE Content(index + Len(tag))
    IN  At(Index(s, tag))

\* getSplitTag(str, orig, tag)
getSplitTag(s, orig, tag) ==
    LET At(data) == IF data = <<>> THEN <<>> ELSE Split(data, ",")
    IN  At(getTag(s, orig, tag))

\* PQuery.split()
split(txt) ==
    LET Tags(sql) ==
            [select_     |-> getSplitTag(sql, txt, Select),
             from_       |-> getTag(sql, txt, From),
             where_      |-> getTag(sql, txt, Where),
             descending_ |-> getBoolTag(sql, Descending),
             ascending_  |-> getBoolTag(sql, Ascending),
             limit_      |-> getTag(sql, txt, Limit),
             page_       |-> getTag(sql, txt, Page),
             sortby_     |-> getTag(sql, txt, SortBy),
             matchcase_  |-> getBoolTag(sql, MatchCase),
             mapreduce_  |-> getBoolTag(sql, MapReduce)]
    IN  Tags(TrimAndLowerNoKeys(txt))

\* the zero l8api.L8Query holding the text (NewQuery, before init)
EmptyPQuery(txt) ==
    [Text |-> txt, Properties |-> <<>>, RootType |-> <<>>, Criteria |-> Nil,
     Limit |-> 0, Page |-> 0, SortBy |-> <<>>, Descending |-> FALSE,
     MatchCase |-> FALSE, MapReduce |-> FALSE]

\* a limit that falls back to Atoi's zero
LimitOfAtoi(limit_) == Atoi(limit_).v

\* the limit the header gets from a limit clause: 10 when it is no integer
LimitOf(limit_) ==
    LET At(a) == IF a.ok THEN a.v ELSE 10
    IN  At(Atoi(limit_))

\* the bound of PQuery.init: a limit of this much or more is refused
LimitCap == 1000

\* init refusing only a limit above the bound
LimitRefusedAbove(limit) == limit > LimitCap

\* whether init refuses the limit
LimitRefused(limit) == limit >= LimitCap

\* init testing ascending first, so that descending wins
DescendingWins(descending_, ascending_, before) ==
    IF descending_ = "true" THEN TRUE
    ELSE IF ascending_ = "true" THEN FALSE
    ELSE before

\* init's two flag tests, in their order: descending sets the flag and
\* ascending, tested after it, clears it
DescendingOf(descending_, ascending_, before) ==
    LET d == IF descending_ = "true" THEN TRUE ELSE before
    IN  IF ascending_ = "true" THEN FALSE ELSE d

\* PQuery.init(): [e, v], v the L8Query as init leaves it (also when it fails).
\* Limit and Page are int32(n); every integer of the model is within 32 bits.
init(txt) ==
    LET Flags(p, q) ==
            [q EXCEPT !.SortBy = p.sortby_,
                      !.Descending = DescendingOf(p.descending_, p.ascending_, q.Descending),
                      !.MatchCase = (p.matchcase_ = "true"),
                      !.MapReduce = (p.mapreduce_ = "true")]
        AfterLimit(p, q, page) ==
            IF p.page_ = <<>> THEN Ok(Flags(p, q))
            ELSE IF ~page.ok THEN [e |-> "Invalid page", v |-> q]
            ELSE Ok(Flags(p, [q EXCEPT !.Page = page.v]))
        AfterWhere(p, q, limit) ==
            IF p.limit_ = <<>> THEN AfterLimit(p, q, Atoi(p.page_))
            ELSE IF LimitRefused(limit)
            THEN [e |-> "Invalid limit: Limit is limited up to 1000 elements", v |-> q]
            ELSE AfterLimit(p, [q EXCEPT !.Limit = limit], Atoi(p.page_))
        AfterFrom(p, q, where) ==
            IF where.e # NoErr THEN [e |-> where.e, v |-> q]
            ELSE AfterWhere(p, [q EXCEPT !.Criteria = where.v], LimitOf(p.limit_))
        AfterSplit(p) ==
            AfterFrom(p, [EmptyPQuery(txt) EXCEPT !.RootType = TrimSpace(p.from_),
                                                  !.Properties = p.select_],
                      IF p.where_ # <<>> THEN parseExpression(p.where_) ELSE Ok(Nil))
    IN  AfterSplit(split(txt))

---------------------------------------------------------------------------
(* Values of record fields, as reflection sees them: [k |-> kind, v |-> ...].
   Kinds: "string", "int", "uint", "bool", "float", "ptr", "slice", "map"
   and "invalid" (the nil interface).  A slice or map holds a sequence of
   values.  A kernel returns [panic, v]: it either panics or yields a bool. *)

StrV(s)   == [k |-> "string", v |-> s]
IntV(n)   == [k |-> "int", v |-> n]
UintV(n)  == [k |-> "uint", v |-> n]
BoolV(b)  == [k |-> "bool", v |-> b]
PtrV(x)   == [k |-> "ptr", v |-> x]
SliceV(s) == [k |-> "slice", v |-> s]
MapV(s)   == [k |-> "map", v |-> s]
NilV      == [k |-> "invalid", v |-> 0]

R(b)  == [panic |-> FALSE, v |-> b]
Panic == [panic |-> TRUE, v |-> FALSE]

\* the characters of the model in byte order, for Go's string comparison
ByteOrder == <<"\t", "\n", " ", "!", "\"", "'", "(", ")", "*", "+", ",", "-", ".",
               "0","1","2","3","4","5","6","7","8","9", "<", "=", ">",
               "A","B","C","D","E","F","G","H","I","J","K","L","M",
               "N","O","P","Q","R","S","T","U","V","W","X","Y","Z", "[", "]", "^",
               "a","b","c","d","e","f","g","h","i","j","k","l","m",
               "n","o","p","q","r","s","t","u","v","w","x","y","z">>

CharCode(c) == CHOOSE i \in 1..Len(ByteOrder) : ByteOrder[i] = c

\* a < b on Go strings
RECURSIVE StrLess(_, _)
StrLess(a, b) ==
    IF b = <<>> THEN FALSE
    ELSE IF a = <<>> THEN TRUE
    ELSE IF a[1] = b[1] THEN StrLess(Tail(a), Tail(b))
    ELSE CharCode(a[1]) < CharCode(b[1])

---------------------------------------------------------------------------
(* package comparators: Equal.go. *)

\* removeSingleQuote(value) slices value[1:len-1]; that panics on a string of
\* one character
removeSingleQuotePanics(value) == Contains(value, <<"'">>) /\ Len(value) < 2

\* removeSingleQuote(value)
removeSingleQuote(value) ==
    IF Contains(value, <<"'">>) THEN Slice(value, 1, Len(value) - 1) ELSE value

\* the kind one operand contributes in getKind
SideKind(x) ==
    IF x.k = "invalid" THEN "string"
    ELSE IF x.k = "slice" THEN (IF Len(x.v) > 0 THEN x.v[1].k ELSE "string")
    ELSE x.k

\* getKind(aside, zside)
getKind(aside, zside) ==
    IF SideKind(aside) # "string" THEN SideKind(aside)
    ELSE IF SideKind(zside) # "string" THEN SideKind(zside)
    ELSE SideKind(aside)

\* getInt64(v): [panic, ok, v]; reflect's Value.Int panics on a kind that is
\* no signed integer
getInt64(x) ==
    LET Parsed(a) == [panic |-> FALSE, ok |-> a.ok, v |-> a.v]
    IN  IF x.k = "string" THEN Parsed(Atoi(x.v))
        ELSE IF x.k = "int" THEN [panic |-> FALSE, ok |-> TRUE, v |-> x.v]
        ELSE [panic |-> TRUE, ok |-> FALSE, v |-> 0]

\* getUint64(v): [panic, ok, v, wrapped]; uint64(i) of a negative i wraps to
\* 2^64 + i, kept as i with wrapped set
getUint64(x) ==
    LET Parsed(a) == [panic |-> FALSE, ok |-> a.ok, v |-> a.v, wrapped |-> a.ok /\ a.v < 0]
    IN  IF x.k = "string" THEN Parsed(Atoi(x.v))
        ELSE IF x.k = "uint" THEN [panic |-> FALSE, ok |-> TRUE, v |-> x.v, wrapped |-> FALSE]
        ELSE [panic |-> TRUE, ok |-> FALSE, v |-> 0, wrapped |-> FALSE]

\* a < b on uint64
ULess(a, b) ==
    IF a.wrapped = b.wrapped THEN a.v < b.v ELSE b.wrapped

\* GetWildCardSubstrings(str): Nil when str holds no "*"
GetWildCardSubstrings(s) ==
    IF ~Contains(s, <<"*">>) THEN Nil ELSE Split(s, "*")

\* the comparison of two strings in eqStringMatcher, after the type assertions
eqStrings(left, right) ==
    LET Wild(aside, splits) ==
            R(\E i \in 1..Len(splits) : splits[i] # <<>> /\ Contains(aside, splits[i]))
        Stripped(aside, zside) ==
            IF aside = <<"n","i","l">> /\ zside = <<>> THEN R(TRUE)
            ELSE IF zside = <<"n","i","l">> /\ aside = <<>> THEN R(TRUE)
            ELSE IF aside = <<"*">> \/ zside = <<"*">> THEN R(TRUE)
            ELSE IF ~Contains(zside, <<"*">>) THEN R(aside = zside)
            ELSE Wild(aside, GetWildCardSubstrings(zside))
        Lowered(l, r) ==
            IF removeSingleQuotePanics(l) \/ removeSingleQuotePanics(r) THEN Panic
            ELSE Stripped(removeSingleQuote(l), removeSingleQuote(r))
    IN  Lowered(ToLower(left), ToLower(right))

\* eqStringMatcher(left, right); elems[i..] are the elements of a slice left
\* still to try
RECURSIVE eqStringMatcher(_, _)
RECURSIVE eqStringSlice(_, _, _)
eqStringSlice(elems, i, right) ==
    LET At(r) == IF r.panic THEN Panic
                 ELSE IF r.v THEN R(TRUE)
                 ELSE eqStringSlice(elems, i + 1, right)
    IN  IF i > Len(elems) THEN R(FALSE) ELSE At(eqStringMatcher(elems[i], right))

eqStringMatcher(left, right) ==
    IF left.k = "slice" THEN eqStringSlice(left.v, 1, right)
    ELSE IF left.k # "string" \/ right.k # "string" THEN Panic
    ELSE eqStrings(left.v, right.v)

\* eqPtrMatcher(left, right)
eqPtrMatcher(left, right) ==
    IF left.k = "invalid" /\ right.k # "string" THEN Panic
    ELSE IF left.k = "invalid" /\ right.v = <<"n","i","l">> THEN R(TRUE)
    ELSE IF right.k = "invalid" /\ left.k # "string" THEN Panic
    ELSE IF right.k = "invalid" /\ left.v = <<"n","i","l">> THEN R(TRUE)
    ELSE R(FALSE)

\* eqIntMatcher(left, right)
eqIntMatcher(left, right) ==
    LET Sides(a, z) ==
            IF a.panic \/ z.panic THEN Panic
            ELSE IF right.k = "string" /\ right.v = <<"n","i","l">> /\ a.ok /\ a.v = 0 THEN R(TRUE)
            ELSE IF left.k = "string" /\ left.v = <<"n","i","l">> /\ z.ok /\ z.v = 0 THEN R(TRUE)
            ELSE IF ~a.ok \/ ~z.ok THEN R(FALSE)
            ELSE R(a.v = z.v)
    IN  Sides(getInt64(left), getInt64(right))

\* the comparison a kernel applies: aside <rel> zside on strings, on int64 and
\* on uint64
StringRel(rel, a, z) ==
    IF rel = "!=" THEN a # z
    ELSE IF rel = "<" THEN StrLess(a, z)
    ELSE IF rel = "<=" THEN ~StrLess(z, a)
    ELSE IF rel = ">=" THEN ~StrLess(a, z)
    ELSE StrLess(z, a)

IntRel(rel, a, z) ==
    IF rel = "!=" THEN a # z
    ELSE IF rel = "<" THEN a < z
    ELSE IF rel = "<=" THEN a <= z
    ELSE IF rel = ">=" THEN a >= z
    ELSE a > z

UintRel(rel, a, z) ==
    IF rel = "==" THEN a.v = z.v /\ a.wrapped = z.wrapped
    ELSE IF rel = "!=" THEN ~(a.v = z.v /\ a.wrapped = z.wrapped)
    ELSE IF rel = "<" THEN ULess(a, z)
    ELSE IF rel = "<=" THEN ~ULess(z, a)
    ELSE IF rel = ">=" THEN ~ULess(a, z)
    ELSE ULess(z, a)

\* the shape of every unsigned kernel but in / not in: rel is the comparison
UintMatcher(left, right, rel) ==
    LET Sides(a, z) ==
            IF a.panic THEN Panic
            ELSE IF ~a.ok THEN R(FALSE)
            ELSE IF z.panic THEN Panic
            ELSE IF ~z.ok THEN R(FALSE)
            ELSE R(UintRel(rel, a, z))
    IN  Sides(getUint64(left), getUint64(right))

\* the shape of every signed kernel but = and in / not in
IntMatcher(left, right, rel) ==
    LET Sides(a, z) ==
            IF a.panic THEN Panic
            ELSE IF ~a.ok THEN R(FALSE)
            ELSE IF z.panic THEN Panic
            ELSE IF ~z.ok THEN R(FALSE)
            ELSE R(IntRel(rel, a.v, z.v))
    IN  Sides(getInt64(left), getInt64(right))

\* the shape of every string kernel but = and in / not in
StringMatcher(left, right, rel) ==
    LET Lowered(l, r) ==
            IF removeSingleQuotePanics(l) \/ removeSingleQuotePanics(r) THEN Panic
            ELSE R(StringRel(rel, removeSingleQuote(l), removeSingleQuote(r)))
    IN  IF left.k # "string" \/ right.k # "string" THEN Panic
        ELSE Lowered(ToLower(left.v), ToLower(right.v))

\* eqUintMatcher(left, right)
eqUintMatcher(left, right) ==
    UintMatcher(left, right, "==")

---------------------------------------------------------------------------
(* package comparators: NotEqual, IN, NotIN and the ordering operators. *)

\* noteqStringMatcher / noteqIntMatcher / noteqUintMatcher
noteqStringMatcher(left, right) == StringMatcher(left, right, "!=")
noteqIntMatcher(left, right) == IntMatcher(left, right, "!=")
noteqUintMatcher(left, right) ==
    UintMatcher(left, right, "!=")

\* ltStringMatcher / ltIntMatcher / ltUintMatcher
ltStringMatcher(left, right) == StringMatcher(left, right, "<")
ltIntMatcher(left, right) == IntMatcher(left, right, "<")
ltUintMatcher(left, right) == UintMatcher(left, right, "<")

\* lteqStringMatcher / lteqIntMatcher / lteqUintMatcher
lteqStringMatcher(left, right) == StringMatcher(left, right, "<=")
lteqIntMatcher(left, right) == IntMatcher(left, right, "<=")
lteqUintMatcher(left, right) == UintMatcher(left, right, "<=")

\* gteqStringMatcher / gteqIntMatcher / gteqUintMatcher
gteqStringMatcher(left, right) == StringMatcher(left, right, ">=")
gteqIntMatcher(left, right) == IntMatcher(left, right, ">=")
gteqUintMatcher(left, right) == UintMatcher(left, right, ">=")

\* the kernels of GreaterThan: the mirror image of LessThan
gtStringMatcher(left, right) == StringMatcher(left, right, ">")
gtIntMatcher(left, right) == IntMatcher(left, right, ">")
gtUintMatcher(left, right) == UintMatcher(left, right, ">")

\* getInStringList(str): [panic, v]; str[index+1 : index2] panics unless
\* 0 <= index+1 <= index2
getInStringList(s) ==
    LET Values(values) ==
            IF \E i \in 1..Len(values) : removeSingleQuotePanics(values[i])
            THEN [panic |-> TRUE, v |-> <<>>]
            ELSE [panic |-> FALSE, v |-> [i \in 1..Len(values) |-> removeSingleQuote(values[i])]]
        At(index, index2) ==
            IF index2 < index + 1 THEN [panic |-> TRUE, v |-> <<>>]
            ELSE Values(Split(Slice(s, index + 1, index2), ","))
    IN  At(Index(s, <<"[">>), Index(s, <<"]">>))

\* inStringMatcher, with the value it returns on a hit as found
InStringMatcher(left, right, found) ==
    LET In(aside, values) ==
            IF values.panic THEN Panic
            ELSE IF \E i \in 1..Len(values.v) : aside = values.v[i]
            THEN R(found) ELSE R(~found)
        Lowered(l) ==
            IF removeSingleQuotePanics(l) THEN Panic
            ELSE IF right.k # "string" THEN Panic
            ELSE In(removeSingleQuote(l), getInStringList(ToLower(right.v)))
    IN  IF left.k # "string" THEN Panic ELSE Lowered(ToLower(left.v))

\* the loop of inIntMatcher / inUintMatcher over values[i..]: a value that is
\* no integer ends it with ~found, a hit with found
RECURSIVE InNumberLoop(_, _, _, _)
InNumberLoop(values, i, aside, found) ==
    LET At(intV) == IF ~intV.ok THEN R(~found)
                    ELSE IF aside = intV.v THEN R(found)
                    ELSE InNumberLoop(values, i + 1, aside, found)
    IN  IF i > Len(values) THEN R(~found) ELSE At(Atoi(values[i]))

\* inIntMatcher, with the value it returns on a hit as found
InIntMatcher(left, right, found) ==
    LET In(a, values) == IF values.panic THEN Panic
                         ELSE InNumberLoop(values.v, 1, a, found)
        Left(a) == IF a.panic THEN Panic
                   ELSE IF ~a.ok THEN R(~found)
                   ELSE IF right.k # "string" THEN Panic
                   ELSE In(a.v, getInStringList(ToLower(right.v)))
    IN  Left(getInt64(left))

\* inUintMatcher, with the value it returns on a hit as found; uint64 of a
\* negative list entry wraps, so it equals no value of a uint field
InUintMatcher(left, right, found) ==
    LET In(a, values) == IF values.panic THEN Panic
                         ELSE InNumberLoop(values.v, 1, a, found)
        Left(a) == IF a.panic THEN Panic
                   ELSE IF ~a.ok THEN R(~found)
                   ELSE IF right.k # "string" THEN Panic
                   ELSE In(a.v, getInStringList(ToLower(right.v)))
    IN  Left(getUint64(left))

inStringMatcher(left, right) == InStringMatcher(left, right, TRUE)
inIntMatcher(left, right) == InIntMatcher(left, right, TRUE)
inUintMatcher(left, right) == InUintMatcher(left, right, TRUE)

\* notinStringMatcher(left, right)
notinStringMatcher(left, right) ==
    LET NotIn(aside, values) ==
            IF values.panic THEN Panic
            ELSE IF \E i \in 1..Len(values.v) : aside = values.v[i]
            THEN R(FALSE) ELSE R(TRUE)
        Lowered(l) ==
            IF removeSingleQuotePanics(l) THEN Panic
            ELSE IF right.k # "string" THEN Panic
            ELSE NotIn(removeSingleQuote(l), getInStringList(ToLower(right.v)))
    IN  IF left.k # "string" THEN Panic ELSE Lowered(ToLower(left.v))

\* the loop of notinIntMatcher / notinUintMatcher over values[i..]
RECURSIVE NotInNumberLoop(_, _, _)
NotInNumberLoop(values, i, aside) ==
    LET At(intV) == IF ~intV.ok THEN R(TRUE)
                    ELSE IF aside = intV.v THEN R(FALSE)
                    ELSE NotInNumberLoop(values, i + 1, aside)
    IN  IF i > Len(values) THEN R(TRUE) ELSE At(Atoi(values[i]))

\* notinIntMatcher taking a left value that is no integer for one in the list
notinIntMatcherStrict(left, right) ==
    LET NotIn(a, values) == IF values.panic THEN Panic
                            ELSE NotInNumberLoop(values.v, 1, a)
        Left(a) == IF a.panic THEN Panic
                   ELSE IF ~a.ok THEN R(FALSE)
                   ELSE IF right.k # "string" THEN Panic
                   ELSE NotIn(a.v, getInStringList(ToLower(right.v)))
    IN  Left(getInt64(left))

\* notinIntMatcher(left, right)
notinIntMatcher(left, right) ==
    LET NotIn(a, values) == IF values.panic THEN Panic
                            ELSE NotInNumberLoop(values.v, 1, a)
        Left(a) == IF a.panic THEN Panic
                   ELSE IF ~a.ok THEN R(TRUE)
                   ELSE IF right.k # "string" THEN Panic
                   ELSE NotIn(a.v, getInStringList(ToLower(right.v)))
    IN  Left(getInt64(left))

\* notinUintMatcher(left, right)
notinUintMatcher(left, right) ==
    LET NotIn(a, values) == IF values.panic THEN Panic
                            ELSE NotInNumberLoop(values.v, 1, a)
        Left(a) == IF a.panic THEN Panic
                   ELSE IF ~a.ok THEN R(TRUE)
                   ELSE IF right.k # "string" THEN Panic
                   ELSE NotIn(a.v, getInStringList(ToLower(right.v)))
    IN  Left(getUint64(left))

\* Compare(left, right, compares, name) for the operator op: the kernel of
\* getKind's kind in the operator's table, a panic when the table has none
Compare(op, left, right) ==
    LET Of(kind) ==
        IF op = Eq THEN
            (IF kind = "string" THEN eqStringMatcher(left, right)
             ELSE IF kind = "int" THEN eqIntMatcher(left, right)
             ELSE IF kind = "uint" THEN eqUintMatcher(left, right)
             ELSE IF kind = "ptr" THEN eqPtrMatcher(left, right)
             ELSE Panic)
        ELSE IF kind \notin {"string", "int", "uint"} THEN Panic
        ELSE IF op = Neq THEN
            (IF kind = "string" THEN noteqStringMatcher(left, right)
             ELSE IF kind = "int" THEN noteqIntMatcher(left, right)
             ELSE noteqUintMatcher(left, right))
        ELSE IF op = OpIN THEN
            (IF kind = "string" THEN inStringMatcher(left, right)
             ELSE IF kind = "int" THEN inIntMatcher(left, right)
             ELSE inUintMatcher(left, right))
        ELSE IF op = OpNOTIN THEN
            (IF kind = "string" THEN notinStringMatcher(left, right)
             ELSE IF kind = "int" THEN notinIntMatcher(left, right)
             ELSE notinUintMatcher(left, right))
        ELSE IF op = LT THEN
            (IF kind = "string" THEN ltStringMatcher(left, right)
             ELSE IF kind = "int" THEN ltIntMatcher(left, right)
             ELSE ltUintMatcher(left, right))
        ELSE IF op = LTEQ THEN
            (IF kind = "string" THEN lteqStringMatcher(left, right)
             ELSE IF kind = "int" THEN lteqIntMatcher(left, right)
             ELSE lteqUintMatcher(left, right))
        ELSE IF op = GTEQ THEN
            (IF kind = "string" THEN gteqStringMatcher(left, right)
             ELSE IF kind = "int" THEN gteqIntMatcher(left, right)
             ELSE gteqUintMatcher(left, right))
        ELSE IF op = GT THEN
            (IF kind = "string" THEN gtStringMatcher(left, right)
             ELSE IF kind = "int" THEN gtIntMatcher(left, right)
             ELSE gtUintMatcher(left, right))
        ELSE Panic
    IN  Of(getKind(left, right))

---------------------------------------------------------------------------
(* The schema the host supplies (the introspector and the property
   accessors).  One root type T with a field of each kind; a record is
   [type, f], f the field values.  A property is [field |-> name]. *)

RootTypeName == <<"T">>

FieldNames == {"s", "i", "u", "b", "f", "l", "p"}

\* Introspector().Node(name): the type node, found whatever the letter case
Node(name) ==
    IF ToLower(name) = ToLower(RootTypeName)
    THEN [ok |-> TRUE, v |-> [TypeName |-> RootTypeName]]
    ELSE [ok |-> FALSE, v |-> Nil]

\* properties.PropertyOf(path, resources): [e, v]
PropertyOf(path) ==
    LET At(p, prefix) ==
            IF Len(p) = Len(prefix) + 1 /\ SubSeq(p, 1, Len(prefix)) = prefix
               /\ p[Len(p)] \in FieldNames
            THEN Ok([field |-> p[Len(p)]])
            ELSE Fail("property not found")
    IN  At(ToLower(path), ToLower(RootTypeName) \o <<".">>)

\* Property.Get(root): [e, v]; the accessor fails on a record of another type,
\* and on a field the record cannot be read at
Get(prop, root) ==
    IF root.type # "T" THEN Fail("accessor error")
    ELSE IF "unreadable" \in DOMAIN root /\ prop.field \in root.unreadable
    THEN Fail("accessor error")
    ELSE Ok(root.f[prop.field])

\* Property.Set(clone, v); a value Get could not fetch sets nothing
Set(prop, clone, got) ==
    IF got.e # NoErr THEN clone ELSE [clone EXCEPT !.f[prop.field] = got.v]

\* reflect.New(typ): the record of the type with every field zero
ZeroRecord(type) ==
    IF type = "T"
    THEN [type |-> "T",
          f |-> [s |-> StrV(<<>>), i |-> IntV(0), u |-> UintV(0), b |-> BoolV(FALSE),
                 f |-> [k |-> "float", v |-> 0], l |-> SliceV(<<>>), p |-> PtrV("nil")]]
    ELSE [type |-> type]

---------------------------------------------------------------------------
(* package interpreter: the resolver. *)

\* propertyPath(colName, rootTable)
propertyPath(colName, rootTable0) ==
    LET At(rootTable) ==
            IF Contains(colName, rootTable) THEN colName
            ELSE rootTable \o <<".">> \o colName
    IN  At(ToLower(rootTable0))

\* CreateComparator keeping a comparator neither side of which resolved
CreateComparatorUnchecked(c, rootTable) ==
    Ok([left |-> c.Left,
        leftProperty |-> PropertyOf(propertyPath(c.Left, rootTable.TypeName)).v,
        operation |-> c.Oper,
        right |-> c.Right,
        rightProperty |-> PropertyOf(propertyPath(c.Right, rootTable.TypeName)).v])

\* CreateComparator(c, rootTable, resources)
CreateComparator(c, rootTable) ==
    LET Resolved(leftProperty, rightProperty) ==
            IF leftProperty = Nil /\ rightProperty = Nil
            THEN Fail("No Field was found for comparator")
            ELSE Ok([left |-> c.Left, leftProperty |-> leftProperty,
                     operation |-> c.Oper,
                     right |-> c.Right, rightProperty |-> rightProperty])
    IN  Resolved(PropertyOf(propertyPath(c.Left, rootTable.TypeName)).v,
                 PropertyOf(propertyPath(c.Right, rootTable.TypeName)).v)

\* CreateCondition(c, rootTable, resources)
RECURSIVE CreateCondition(_, _)
CreateCondition(c, rootTable) ==
    LET Linked(comp, next) ==
            IF next.e # NoErr THEN Fail(next.e)
            ELSE Ok([comparator |-> comp, operation |-> c.Oper, next |-> next.v])
        At(comp) ==
            IF comp.e # NoErr THEN Fail(comp.e)
            ELSE IF c.Next # Nil THEN Linked(comp.v, CreateCondition(c.Next, rootTable))
            ELSE Ok([comparator |-> comp.v, operation |-> c.Oper, next |-> Nil])
    IN  At(CreateComparator(c.Comparator, rootTable))

\* CreateExpression(expr, rootTable, resources)
RECURSIVE CreateExpression(_, _)
CreateExpression(expr, rootTable) ==
    LET Parts(cond, child, next) ==
            IF cond.e # NoErr THEN Fail(cond.e)
            ELSE IF child.e # NoErr THEN Fail(child.e)
            ELSE IF next.e # NoErr THEN Fail(next.e)
            ELSE Ok([condition |-> cond.v, operation |-> expr.AndOr,
                     next |-> next.v, child |-> child.v])
    IN  IF expr = Nil THEN Ok(Nil)
        ELSE Parts(IF expr.Condition # Nil
                   THEN CreateCondition(expr.Condition, rootTable) ELSE Ok(Nil),
                   IF expr.Child # Nil
                   THEN CreateExpression(expr.Child, rootTable) ELSE Ok(Nil),
                   IF expr.Next # Nil
                   THEN CreateExpression(expr.Next, rootTable) ELSE Ok(Nil))

\* initColumns' loop over the columns cols[i..]: [e, v], v the properties
RECURSIVE initColumnsFrom(_, _, _)
initColumnsFrom(cols, i, typeName) ==
    LET Rest(prop, rest) == IF rest.e # NoErr THEN Fail(rest.e)
                            ELSE Ok(<<prop>> \o rest.v)
        At(prop) == IF prop.e # NoErr THEN Fail("cannot find property for col")
                    ELSE Rest(prop.v, initColumnsFrom(cols, i + 1, typeName))
    IN  IF i > Len(cols) THEN Ok(<<>>)
        ELSE At(PropertyOf(propertyPath(cols[i], typeName)))

\* Query.initColumns(query, resources)
initColumns(q, typeName) ==
    IF Len(q.Properties) = 1 /\ q.Properties[1] = <<"*">> THEN Ok(<<>>)
    ELSE initColumnsFrom(q.Properties, 1, typeName)

\* NewFromQuery(query, resources): [e, v]
NewFromQuery(q) ==
    LET Sorted(node, cols, expr, sortByProperty) ==
            IF sortByProperty.e # NoErr THEN Fail(sortByProperty.e)
            ELSE Ok([rootType |-> node, properties |-> cols, where |-> expr,
                     sortBy |-> q.SortBy, sortByProperty |-> sortByProperty.v,
                     descending |-> q.Descending, limit |-> q.Limit, page |-> q.Page,
                     matchCase |-> q.MatchCase, query |-> q])
        Resolved(node, cols, expr) ==
            IF expr.e # NoErr THEN Fail(expr.e)
            ELSE Sorted(node, cols, expr.v,
                        IF q.SortBy # <<>>
                        THEN PropertyOf(node.TypeName \o <<".">> \o q.SortBy)
                        ELSE Ok(Nil))
        Columns(node, cols) ==
            IF cols.e # NoErr THEN Fail(cols.e)
            ELSE Resolved(node, cols.v, CreateExpression(q.Criteria, node))
        Tables(node) ==
            IF ~node.ok THEN Fail("Cannot find node for table")
            ELSE Columns(node.v, initColumns(q, node.v.TypeName))
    IN  Tables(Node(q.RootType))

---------------------------------------------------------------------------
(* package interpreter: evaluation.  A Match yields [e, v, panic]: the Go
   pair (v, e), or a panic that unwinds every caller. *)

M(b)       == [e |-> NoErr, v |-> b, panic |-> FALSE]
MErr(err)  == [e |-> err, v |-> FALSE, panic |-> FALSE]
MPanic     == [e |-> NoErr, v |-> FALSE, panic |-> TRUE]

\* the operations the package's init() registers a Comparable for
comparables == {Eq, Neq, GT, LT, GTEQ, LTEQ, OpIN, OpNOTIN}

\* toLowerValue(value)
toLowerValue(value) ==
    IF value.k = "string" THEN StrV(ToLower(value.v))
    ELSE IF value.k \in {"slice", "map"} /\ Len(value.v) > 0 /\ value.v[1].k = "string"
    THEN [k |-> value.k, v |-> [j \in 1..Len(value.v) |-> StrV(ToLower(value.v[j].v))]]
    ELSE value

\* Comparator.Match(root, matchCase)
ComparatorMatch(this, root, matchCase) ==
    LET Kernel(r) == IF r.panic THEN MPanic ELSE M(r.v)
        Values(leftValue, rightValue) ==
            IF this.operation \notin comparables THEN MPanic
            ELSE Kernel(Compare(this.operation,
                                IF ~matchCase THEN toLowerValue(leftValue) ELSE leftValue,
                                IF ~matchCase THEN toLowerValue(rightValue) ELSE rightValue))
        Right(leftValue, right) ==
            IF this.rightProperty # Nil THEN MErr(right.e)
            ELSE Values(leftValue, right.v)
        Left(left) ==
            IF left.e # NoErr THEN MErr(left.e)
            ELSE Right(left.v, IF this.rightProperty # Nil THEN Get(this.rightProperty, root)
                               ELSE Ok(StrV(this.right)))
    IN  Left(IF this.leftProperty # Nil THEN Get(this.leftProperty, root)
             ELSE Ok(StrV(this.left)))

RECURSIVE ConditionMatch(_, _, _)

\* a Condition.Match that stops at a comparator that decides an or
ConditionMatchShort(this, root, matchCase) ==
    LET Both(comp, next) ==
            IF next.panic THEN MPanic
            ELSE IF next.e # NoErr THEN MErr(next.e)
            ELSE IF this.operation = NoOp THEN M(next.v /\ comp)
            ELSE IF this.operation = And THEN M(comp /\ next.v)
            ELSE M(comp \/ next.v)
        At(comp) ==
            IF comp.panic THEN MPanic
            ELSE IF comp.e # NoErr THEN MErr(comp.e)
            ELSE IF comp.v /\ this.operation = Or THEN M(TRUE)
            ELSE Both(comp.v, IF this.next # Nil
                              THEN ConditionMatch(this.next, root, matchCase)
                              ELSE M(this.operation # Or))
    IN  At(ComparatorMatch(this.comparator, root, matchCase))

\* Condition.Match(root, matchCase)
ConditionMatch(this, root, matchCase) ==
    LET Both(comp, next) ==
            IF next.panic THEN MPanic
            ELSE IF next.e # NoErr THEN MErr(next.e)
            ELSE IF this.operation = NoOp THEN M(next.v /\ comp)
            ELSE IF this.operation = And THEN M(comp /\ next.v)
            ELSE IF this.operation = Or THEN M(comp \/ next.v)
            ELSE MErr("Unsupported operation in match")
        At(comp) ==
            IF comp.panic THEN MPanic
            ELSE IF comp.e # NoErr THEN MErr(comp.e)
            ELSE Both(comp.v, IF this.next # Nil
                              THEN ConditionMatch(this.next, root, matchCase)
                              ELSE M(this.operation # Or))
    IN  At(ComparatorMatch(this.comparator, root, matchCase))

\* Expression.Match(root); matchCase is the flag of the query
RECURSIVE ExpressionMatch(_, _, _)
ExpressionMatch(this, root, matchCase) ==
    LET All(cond, child, next) ==
            IF next.panic THEN MPanic
            ELSE IF next.e # NoErr THEN MErr(next.e)
            ELSE IF this.operation = NoOp THEN M(child /\ next.v /\ cond)
            ELSE IF this.operation = And THEN M(child /\ next.v /\ cond)
            ELSE IF this.operation = Or THEN M(child \/ next.v \/ cond)
            ELSE MErr("Unsupported operation in match")
        Child(cond, child) ==
            IF child.panic THEN MPanic
            ELSE IF child.e # NoErr THEN MErr(child.e)
            ELSE All(cond, child.v, IF this.next # Nil
                                    THEN ExpressionMatch(this.next, root, matchCase)
                                    ELSE M(this.operation # Or))
        Cond(cond) ==
            IF cond.panic THEN MPanic
            ELSE IF cond.e # NoErr THEN MErr(cond.e)
            ELSE Child(cond.v, IF this.child # Nil
                               THEN ExpressionMatch(this.child, root, matchCase)
                               ELSE M(this.operation # Or))
    IN  Cond(IF this.condition # Nil
             THEN ConditionMatch(this.condition, root, matchCase)
             ELSE M(this.operation # Or))

\* Query.match(root)
match(this, root) ==
    IF root = Nil THEN M(FALSE)
    ELSE IF this.rootType = Nil THEN M(FALSE)
    ELSE IF this.where = Nil THEN M(TRUE)
    ELSE ExpressionMatch(this.where, root, this.matchCase)

\* Match counting an accessor error as a match
QueryMatchOrError(this, any) ==
    [panic |-> match(this, any).panic,
     v |-> match(this, any).v \/ match(this, any).e # NoErr]

\* Query.Match(any): the bool of match, its error logged and dropped
QueryMatch(this, any) ==
    LET Logged(m) == [panic |-> m.panic, v |-> m.v]
    IN  Logged(match(this, any))

\* cloneOnlyWithColumns' loop over the columns properties[i..]
RECURSIVE cloneColumnsFrom(_, _, _, _)
cloneColumnsFrom(properties, i, any, clone) ==
    IF i > Len(properties) THEN clone
    ELSE cloneColumnsFrom(properties, i + 1, any,
                          Set(properties[i], clone, Get(properties[i], any)))

\* a clone that carries every field of the source
cloneWithAllColumns(this, any) == any

\* Query.cloneOnlyWithColumns(any)
cloneOnlyWithColumns(this, any) ==
    cloneColumnsFrom(this.properties, 1, any, ZeroRecord(any.type))

---------------------------------------------------------------------------
(* The inputs a caller hands to the library. *)

Sp   == <<" ">>
Star == <<"*">>

\* "select <cols> from t [where <clause>]<flags>"
QueryText(cols, clause, flags) ==
    Select \o Sp \o cols \o Sp \o From \o Sp \o ToLower(RootTypeName)
    \o (IF clause = <<>> THEN <<>> ELSE Sp \o Where \o Sp \o clause) \o flags

\* the three comparators of the connective chains
CmpI == <<"i">> \o Eq \o <<"1">>
CmpU == <<"u">> \o Eq \o <<"2">>
CmpS == <<"s">> \o Eq \o <<"x">>

Connectives == {And, Or}

\* c1 o1 c2 o2 c3, bare and as parenthesized groups
Chain(o1, o2)  == CmpI \o o1 \o CmpU \o o2 \o CmpS
Groups(o1, o2) ==
    <<"(">> \o CmpI \o <<")">> \o o1 \o <<"(">> \o CmpU \o <<")">> \o o2
    \o <<"(">> \o CmpS \o <<")">>

Hello == <<"H","e","l","l","o">>
HelloClause == <<"s">> \o Eq \o <<"\"">> \o Hello \o <<"\"">>

\* the where clauses of one comparator: every operator, every field kind,
\* either side bound
SingleClauses ==
    { CmpS, CmpI, HelloClause,
      <<"x">> \o Eq \o <<"s">>,  <<"1">> \o Eq \o <<"i">>,
      <<"s">> \o Eq \o Star,     <<"i">> \o Eq \o Star,
      <<"u">> \o Eq \o Star,     <<"l">> \o Eq \o Star,
      <<"l">> \o Eq \o <<"x">>,  <<"p">> \o Eq \o <<"n","i","l">>,
      <<"b">> \o Eq \o <<"t","r","u","e">>,  <<"f">> \o Eq \o <<"1">>,
      <<"p">> \o GT \o <<"1">>,  <<"l">> \o Neq \o <<"x">>,
      <<"s">> \o Neq \o <<"x">>, <<"i">> \o GTEQ \o <<"1">>,
      <<"u">> \o LTEQ \o <<"2">>, <<"u">> \o LT \o <<"-","1">>,
      <<"s">> \o GT \o <<"x">>,  <<"i">> \o LT \o <<"1">>,
      <<"s">> \o OpIN \o <<"x">>,
      <<"s">> \o OpIN \o <<"[","x",",","y","]">>,
      <<"i">> \o OpNOTIN \o <<"[","1","]">>,
      <<"u">> \o OpIN \o <<"[","2",",","-","1","]">>,
      <<"z">> \o Eq \o <<"1">> }

WhereClauses ==
    SingleClauses
    \cup { Chain(o1, o2) : o1 \in Connectives, o2 \in Connectives }
    \cup { Groups(o1, o2) : o1 \in Connectives, o2 \in Connectives }

MatchCaseFlag == Sp \o MatchCase

\* the query texts of the evaluation pipeline
QueryTexts ==
    { QueryText(Star, w, <<>>) : w \in WhereClauses \cup {<<>>} }
    \cup { QueryText(Star, HelloClause, MatchCaseFlag),
           QueryText(<<"s">>, CmpS, <<>>),
           QueryText(<<"s", ",", "i">>, <<>>, <<>>),
           QueryText(<<"z">>, <<>>, <<>>),
           Select \o Sp \o Star \o Sp \o From \o Sp \o <<"n","o">> }

\* the records of the root type
TRecords ==
    { [type |-> "T",
       f |-> [s |-> StrV(sv), i |-> IntV(iv), u |-> UintV(uv), b |-> BoolV(TRUE),
              f |-> [k |-> "float", v |-> 1], l |-> SliceV(lv), p |-> PtrV("nil")]] :
        sv \in {<<"x">>, <<"y">>, Hello, ToLower(Hello), <<"H","E","L","L","O">>},
        iv \in {0, 1}, uv \in {0, 2}, lv \in {<<>>, <<StrV(<<"x">>)>>} }

\* a record of another type: every accessor of the root type fails on it
Foreign == [type |-> "other"]

\* a record of the root type with upper-case letters in its string field and
\* in its slice
RecUpper ==
    [type |-> "T",
     f |-> [s |-> StrV(<<"H","E","L","L","O">>), i |-> IntV(1), u |-> UintV(2),
            b |-> BoolV(TRUE), f |-> [k |-> "float", v |-> 1],
            l |-> SliceV(<<StrV(<<"X">>)>>), p |-> PtrV("nil")]]

Records == TRecords \cup {RecUpper, Foreign, Nil}

\* a record of the root type whose field u cannot be read
RecBroken ==
    [type |-> "T",
     f |-> [s |-> StrV(<<"x">>), i |-> IntV(1), u |-> UintV(2), b |-> BoolV(TRUE),
            f |-> [k |-> "float", v |-> 1], l |-> SliceV(<<>>), p |-> PtrV("nil")],
     unreadable |-> {"u"}]

RecX == CHOOSE r \in TRecords :
            r.f.s = StrV(<<"x">>) /\ r.f.i = IntV(1) /\ r.f.u = UintV(2) /\ r.f.l = SliceV(<<>>)
RecY == CHOOSE r \in TRecords :
            r.f.s = StrV(<<"y">>) /\ r.f.i = IntV(0) /\ r.f.u = UintV(0) /\ r.f.l = SliceV(<<>>)

\* the lists handed to Filter
FilterRecords == {RecX, RecY, Foreign}
Lists == UNION { [1..n -> FilterRecords] : n \in 0..MaxList }

\* where clauses as token sequences, and the clauses named in the tests
WhereTokens == { <<"(">>, <<")">>, <<"a">> \o Eq \o <<"1">>, And,
                 <<"b">> \o Eq \o <<"\"", "X", "\"">> }

TokenClauses ==
    { Concat(ts) : ts \in UNION { [1..n -> WhereTokens] : n \in 1..MaxTokens } }

A1 == <<"a">> \o Eq \o <<"1">>
B2 == <<"b">> \o Eq \o <<"2">>
C3 == <<"c">> \o Eq \o <<"3">>

\* ((a=1 and b=2) or c=3)
NestedClause ==
    <<"(", "(">> \o A1 \o And \o B2 \o <<")">> \o Or \o C3 \o <<")">>

\* (a=1) x and b=2, and a=1 and x (b=2)
StrayBehindGroup == <<"(">> \o A1 \o <<")", " ", "x">> \o And \o B2
StrayBeforeGroup == A1 \o And \o <<"x", " ", "(">> \o B2 \o <<")">>

NamedClauses ==
    { NestedClause, StrayBehindGroup, StrayBeforeGroup,
      <<"(">> \o A1 \o <<")">> \o And \o <<"(">> \o B2 \o <<")">>,
      <<"(">> \o A1 \o And \o B2,
      <<"(">> \o A1 \o <<")", ")">> \o And \o B2,
      <<"(">> \o A1 \o <<")", " ", "(">> \o And \o B2,
      A1 \o <<" ", ">", " ", "=", "1">>,
      A1 \o Or \o <<"(">> \o B2 \o And \o C3 \o <<")">> }

WhereTexts == { QueryText(Star, w, <<>>) : w \in TokenClauses \cup NamedClauses }

\* limit clauses of at most MaxDigits characters
LimitChars == {"0", "1", "9"}
LimitClauses ==
    UNION { [1..n -> LimitChars] : n \in 1..MaxDigits }
    \cup { <<"x">>, <<"-", "1">>, <<"1", "x">>, <<"1", ".", "5">>, <<"1", " ", "0">>, <<>> }

FlagTexts ==
    { <<>>, Sp \o Descending, Sp \o Ascending,
      Sp \o Descending \o Sp \o Ascending, Sp \o Ascending \o Sp \o Descending,
      Sp \o SortBy \o Sp \o <<"s">> \o Sp \o Descending }

HeaderTexts ==
    { QueryText(Star, <<>>, Sp \o Limit \o Sp \o l \o fl) : l \in LimitClauses, fl \in FlagTexts }
    \cup { QueryText(Star, <<>>, fl) : fl \in FlagTexts }

---------------------------------------------------------------------------
(* Query.Filter as its loop: [panic, done, result] after the elements
   list[i..], done the number of elements evaluated. *)

RECURSIVE FilterFrom(_, _, _, _, _)
FilterFrom(this, lst, i, onlySelectedColumns, acc) ==
    LET At(m) ==
            IF m.panic THEN [panic |-> TRUE, done |-> i - 1, result |-> acc]
            ELSE IF m.v
            THEN FilterFrom(this, lst, i + 1, onlySelectedColumns,
                    IF ~onlySelectedColumns \/ Len(this.properties) = 0
                    THEN Append(acc, lst[i])
                    ELSE Append(acc, cloneOnlyWithColumns(this, lst[i])))
            ELSE FilterFrom(this, lst, i + 1, onlySelectedColumns, acc)
    IN  IF i > Len(lst) THEN [panic |-> FALSE, done |-> Len(lst), result |-> acc]
        ELSE At(QueryMatch(this, lst[i]))

\* Query.Filter(list, onlySelectedColumns)
Filter(this, lst, onlySelectedColumns) ==
    FilterFrom(this, lst, 1, onlySelectedColumns, <<>>)

BoolStr(b) == IF b THEN "true" ELSE "false"

---------------------------------------------------------------------------
(* The state machine. *)

\* the goroutines of a program that builds and evaluates queries at once
Goroutines == {"g1", "g2"}

\* a goroutine that has not called the library yet: its position, the
\* operator it is about to register, and what its lookup found
Idle == [at |-> "idle", next |-> 1, found |-> "none"]

Init ==
    /\ comparators = <<>>
    /\ text = <<>>
    /\ pquery = Nil
    /\ perr = NoErr
    /\ query = Nil
    /\ qerr = NoErr
    /\ lastRecord = Nil
    /\ lastMatch = "none"
    /\ lastErr = NoErr
    /\ list = <<>>
    /\ only = FALSE
    /\ idx = 0
    /\ result = <<>>
    /\ str = <<>>
    /\ reparsed = Nil
    /\ pc = "start"
    /\ param = <<>>
    /\ answer = Nil
    /\ table = <<>>
    /\ threads = [g \in Goroutines |-> Idle]

\* initComparators()
CallInitComparators ==
    /\ Len(comparators) = 0
    /\ comparators' = OrderedComparators
    /\ UNCHANGED <<others, text, pquery, perr, query, qerr, lastRecord, lastMatch, lastErr,
                   list, only, idx, result, str, reparsed, pc>>

\* parser.NewQuery(txt, log) for a text of the family texts
NewQueryOn(texts) ==
    /\ pc = "start"
    /\ \E txt \in texts : \E r \in {init(txt)} :
         /\ text' = txt
         /\ pquery' = r.v
         /\ perr' = r.e
    /\ pc' = "parsed"
    /\ UNCHANGED <<others, comparators, query, qerr, lastRecord, lastMatch, lastErr,
                   list, only, idx, result, str, reparsed>>

CallNewQuery == NewQueryOn(QueryTexts)

CallNewQueryWhere == NewQueryOn(WhereTexts)

CallNewQueryHeader == NewQueryOn(HeaderTexts)

\* interpreter.NewFromQuery(pquery.Query(), resources)
CallNewFromQuery ==
    /\ pc = "parsed"
    /\ perr = NoErr
    /\ \E r \in {NewFromQuery(pquery)} :
         /\ query' = r.v
         /\ qerr' = r.e
         /\ pc' = IF r.e = NoErr THEN "built" ELSE "rejected"
    /\ UNCHANGED <<others, comparators, text, pquery, perr, lastRecord, lastMatch, lastErr,
                   list, only, idx, result, str, reparsed>>

\* Query.Match(any); a panic ends the program
CallMatch ==
    /\ pc \in {"built", "matched"}
    /\ \E any \in Records : \E m \in {match(query, any)} :
         /\ lastRecord' = any
         /\ lastMatch' = IF m.panic THEN "panic" ELSE BoolStr(m.v)
         /\ lastErr' = m.e
         /\ pc' = IF m.panic THEN "panicked" ELSE "matched"
    /\ UNCHANGED <<others, comparators, text, pquery, perr, query, qerr,
                   list, only, idx, result, str, reparsed>>

\* Query.Filter(list, onlySelectedColumns); the Match calls it makes are
\* the last ones the query has seen
CallFilter ==
    /\ pc \in {"built", "matched"}
    /\ \E lst \in Lists, o \in BOOLEAN :
         \E r \in {Filter(query, lst, o)} :
            /\ list' = lst
            /\ only' = o
            /\ idx' = r.done
            /\ result' = r.result
            /\ pc' = IF r.panic THEN "panicked" ELSE "filtered"
            /\ IF Len(lst) = 0 THEN UNCHANGED <<lastRecord, lastMatch, lastErr>>
               ELSE \E m \in {match(query, lst[IF r.panic THEN r.done + 1 ELSE r.done])} :
                      /\ lastRecord' = lst[IF r.panic THEN r.done + 1 ELSE r.done]
                      /\ lastMatch' = IF m.panic THEN "panic" ELSE BoolStr(m.v)
                      /\ lastErr' = m.e
    /\ UNCHANGED <<others, comparators, text, pquery, perr, query, qerr, str, reparsed>>

\* StringExpression(pquery.Criteria)
CallStringExpression ==
    /\ pc = "parsed"
    /\ perr = NoErr
    /\ pquery.Criteria # Nil
    /\ str' = StringExpression(pquery.Criteria)
    /\ pc' = "printed"
    /\ UNCHANGED <<others, comparators, text, pquery, perr, query, qerr, lastRecord, lastMatch,
                   lastErr, list, only, idx, result, reparsed>>

\* parseExpression(str)
CallParseExpression ==
    /\ pc = "printed"
    /\ reparsed' = parseExpression(str)
    /\ pc' = "reparsed"
    /\ UNCHANGED <<others, comparators, text, pquery, perr, query, qerr, lastRecord, lastMatch,
                   lastErr, list, only, idx, result, str>>

\* the evaluation pipeline: parse, resolve, Match and Filter
Next ==
    \/ CallInitComparators
    \/ CallNewQuery
    \/ CallNewFromQuery
    \/ CallMatch
    \/ CallFilter

Spec == Init /\ [][Next]_vars

\* the where-clause parser and its printer
NextParser ==
    \/ CallInitComparators
    \/ CallNewQueryWhere
    \/ CallStringExpression
    \/ CallParseExpression

SpecParser == Init /\ [][NextParser]_vars

\* the query header
NextHeader ==
    \/ CallNewQueryHeader

SpecHeader == Init /\ [][NextHeader]_vars

---------------------------------------------------------------------------
(* package interpreter: the calls that inspect a resolved query. *)

\* Comparator.keyOf()
ComparatorKeyOf(this) ==
    IF this.leftProperty = Nil THEN this.left
    ELSE IF this.rightProperty = Nil THEN this.right
    ELSE <<>>

\* Condition.keyOf()
RECURSIVE ConditionKeyOf(_)
ConditionKeyOf(this) ==
    IF this.comparator # Nil THEN ComparatorKeyOf(this.comparator)
    ELSE IF this.next # Nil THEN ConditionKeyOf(this.next)
    ELSE <<>>

\* Expression.keyOf()
RECURSIVE ExpressionKeyOf(_)
ExpressionKeyOf(this) ==
    IF this.condition # Nil THEN ConditionKeyOf(this.condition)
    ELSE IF this.child # Nil THEN ExpressionKeyOf(this.child)
    ELSE IF this.next # Nil THEN ExpressionKeyOf(this.next)
    ELSE <<>>

\* Query.KeyOf()
KeyOf(this) ==
    IF this.where = Nil THEN <<>> ELSE ExpressionKeyOf(this.where)

\* Comparator.ValueForParameter looking for the name on the left side only
ComparatorValueForParameterLeft(this, name) ==
    IF this.left = name THEN this.right ELSE <<>>

\* Comparator.ValueForParameter(name)
ComparatorValueForParameter(this, name) ==
    IF this.right = name THEN this.left
    ELSE IF this.left = name THEN this.right
    ELSE <<>>

\* Condition.ValueForParameter(name)
RECURSIVE ConditionValueForParameter(_, _)
ConditionValueForParameter(this, name) ==
    LET Rest(val) == IF val # <<>> THEN val ELSE <<>>
        At(val) ==
            IF val # <<>> THEN val
            ELSE IF this.next # Nil THEN Rest(ConditionValueForParameter(this.next, name))
            ELSE <<>>
    IN  At(IF this.comparator # Nil
           THEN ComparatorValueForParameter(this.comparator, name) ELSE <<>>)

\* Expression.ValueForParameter(name)
RECURSIVE ExpressionValueForParameter(_, _)
ExpressionValueForParameter(this, name) ==
    LET Last(val) == IF val # <<>> THEN val ELSE <<>>
        Second(val) ==
            IF val # <<>> THEN val
            ELSE IF this.next # Nil THEN Last(ExpressionValueForParameter(this.next, name))
            ELSE <<>>
        At(val) ==
            IF val # <<>> THEN val
            ELSE Second(IF this.child # Nil
                        THEN ExpressionValueForParameter(this.child, name) ELSE <<>>)
    IN  At(IF this.condition # Nil
           THEN ConditionValueForParameter(this.condition, name) ELSE <<>>)

\* Query.ValueForParameter(name)
ValueForParameter(this, name) ==
    IF this.where = Nil THEN <<>> ELSE ExpressionValueForParameter(this.where, name)

\* Query.SortByValue(v): the value the sort-by accessor fetched, nil when it
\* failed or when the query has no sort-by clause
SortByValue(this, v) ==
    LET At(resp) == IF resp.e # NoErr THEN NilV ELSE resp.v
    IN  IF this.sortBy = <<>> THEN NilV ELSE At(Get(this.sortByProperty, v))

\* Query.Hash(): the MD5 digest of the query text and of nothing else; the
\* digest is kept symbolic
Hash(this) == [md5 |-> this.query.Text]

---------------------------------------------------------------------------
(* The queries whose resolved tree is inspected: one or two comparators,
   bare, in groups, and a group after a bare comparator. *)

InspectComparators ==
    { CmpS, CmpI, <<"x">> \o Eq \o <<"s">>, <<"s">> \o Eq \o <<"i">>,
      <<"s">> \o Eq \o <<"y">>, <<"z">> \o Eq \o <<"1">> }

InspectClauses ==
    InspectComparators
    \cup { c1 \o o \o c2 : c1 \in InspectComparators, c2 \in InspectComparators,
                           o \in Connectives }
    \cup { <<"(">> \o c1 \o <<")">> \o Or \o <<"(">> \o c2 \o <<")">> :
             c1 \in InspectComparators, c2 \in InspectComparators }
    \cup { c1 \o And \o <<"(">> \o c2 \o <<")">> :
             c1 \in InspectComparators, c2 \in InspectComparators }

InspectTexts ==
    { QueryText(Star, w, <<>>) : w \in InspectClauses }
    \cup { QueryText(Star, <<>>, <<>>),
           QueryText(Star, <<>>, Sp \o SortBy \o Sp \o <<"s">>),
           QueryText(Star, CmpI, Sp \o SortBy \o Sp \o <<"s">>),
           QueryText(Star, <<"s">> \o Eq, <<>>),
           QueryText(Star, <<"s">> \o Eq \o And \o CmpS, <<>>) }

\* the names ValueForParameter is asked for
ParameterNames == { <<"s">>, <<"i">>, <<"x">>, <<"y">>, <<"1">>, <<"z">>, <<"q">> }

\* where the caller of an inspection call stands: it holds a built query
InspectReady == {"built", "keyed", "valued", "sorted", "hashed", "matched", "filtered"}

CallNewQueryInspect == NewQueryOn(InspectTexts)

\* Query.KeyOf()
CallKeyOf ==
    /\ pc \in InspectReady
    /\ param' = <<>>
    /\ answer' = KeyOf(query)
    /\ pc' = "keyed"
    /\ UNCHANGED <<comparators, text, pquery, perr, query, qerr, lastRecord, lastMatch,
                   lastErr, list, only, idx, result, str, reparsed, table, threads>>

\* Query.ValueForParameter(name)
CallValueForParameter ==
    /\ pc \in InspectReady
    /\ \E name \in ParameterNames :
         /\ param' = name
         /\ answer' = ValueForParameter(query, name)
    /\ pc' = "valued"
    /\ UNCHANGED <<comparators, text, pquery, perr, query, qerr, lastRecord, lastMatch,
                   lastErr, list, only, idx, result, str, reparsed, table, threads>>

\* a SortByValue that consumes the sort key it has used
CallSortByValueOnce ==
    /\ pc \in InspectReady
    /\ \E v \in FilterRecords :
         /\ param' = <<>>
         /\ answer' = [of |-> v, value |-> SortByValue(query, v)]
    /\ query' = [query EXCEPT !.sortBy = <<>>, !.sortByProperty = Nil]
    /\ pc' = "sorted"
    /\ UNCHANGED <<comparators, text, pquery, perr, qerr, lastRecord, lastMatch,
                   lastErr, list, only, idx, result, str, reparsed, table, threads>>

\* Query.SortByValue(v)
CallSortByValue ==
    /\ pc \in InspectReady
    /\ \E v \in FilterRecords :
         /\ param' = <<>>
         /\ answer' = [of |-> v, value |-> SortByValue(query, v)]
    /\ pc' = "sorted"
    /\ UNCHANGED <<comparators, text, pquery, perr, query, qerr, lastRecord, lastMatch,
                   lastErr, list, only, idx, result, str, reparsed, table, threads>>

\* Query.Hash()
CallHash ==
    /\ pc \in InspectReady
    /\ param' = <<>>
    /\ answer' = Hash(query)
    /\ pc' = "hashed"
    /\ UNCHANGED <<comparators, text, pquery, perr, query, qerr, lastRecord, lastMatch,
                   lastErr, list, only, idx, result, str, reparsed, table, threads>>

\* Query.Match(any) between inspection calls
CallMatchAmong ==
    /\ pc \in InspectReady
    /\ \E any \in FilterRecords : \E m \in {match(query, any)} :
         /\ lastRecord' = any
         /\ lastMatch' = IF m.panic THEN "panic" ELSE BoolStr(m.v)
         /\ lastErr' = m.e
         /\ pc' = IF m.panic THEN "panicked" ELSE "matched"
    /\ UNCHANGED <<others, comparators, text, pquery, perr, query, qerr,
                   list, only, idx, result, str, reparsed>>

\* Query.Filter(list, onlySelectedColumns) between inspection calls, on a
\* list of two different records
CallFilterAmong ==
    /\ pc \in InspectReady
    /\ \E a \in FilterRecords : \E b \in FilterRecords \ {a}, o \in BOOLEAN :
         \E r \in {Filter(query, <<a, b>>, o)} :
            /\ param' = <<a, b>>
            /\ answer' = [only |-> o, result |-> r.result, panic |-> r.panic]
            /\ pc' = IF r.panic THEN "panicked" ELSE "filtered"
    /\ UNCHANGED <<comparators, text, pquery, perr, query, qerr, lastRecord, lastMatch,
                   lastErr, list, only, idx, result, str, reparsed, table, threads>>

\* building a query and inspecting it
NextInspect ==
    \/ CallInitComparators
    \/ CallNewQueryInspect
    \/ CallNewFromQuery
    \/ CallKeyOf
    \/ CallValueForParameter
    \/ CallSortByValue
    \/ CallHash
    \/ CallMatchAmong
    \/ CallFilterAmong

SpecInspect == Init /\ [][NextInspect]_vars

---------------------------------------------------------------------------
(* The membership kernels called on their own. *)

\* the entries of a list operand
InElements == { <<"x">>, <<"1">>, <<"-", "1">>, <<"2">> }

\* the entries joined by commas
RECURSIVE JoinComma(_)
JoinComma(es) ==
    IF Len(es) = 0 THEN <<>>
    ELSE IF Len(es) = 1 THEN es[1]
    ELSE es[1] \o <<",">> \o JoinComma(Tail(es))

\* the right operands: the lists [e1,...,en] of at most MaxList entries, and
\* one operand without brackets
InOperands ==
    { StrV(<<"[">> \o JoinComma(es) \o <<"]">>) :
        es \in UNION { [1..n -> InElements] : n \in 0..MaxList } }
    \cup { StrV(<<"x">>) }

\* the left values: strings, integers of either sign, a slice and a bool
InLefts ==
    << StrV(<<"x">>), StrV(<<"X">>), StrV(<<"y">>), StrV(<<"1">>), StrV(<<"'", "x", "'">>),
       IntV(0), IntV(1), IntV(-1), UintV(0), UintV(2),
       SliceV(<<StrV(<<"x">>)>>), BoolV(TRUE) >>

\* the ways into a membership kernel: Compare's dispatch on the operand
\* kinds, and each kernel by itself
InKernels == {"Compare", "string", "int", "uint"}

\* IN.Compare(left, right), or the kernel of IN for the kind
INCompare(kernel, left, right) ==
    IF kernel = "Compare" THEN Compare(OpIN, left, right)
    ELSE IF kernel = "string" THEN inStringMatcher(left, right)
    ELSE IF kernel = "int" THEN inIntMatcher(left, right)
    ELSE inUintMatcher(left, right)

\* NotIN.Compare(left, right), or the kernel of NotIN for the kind
NotINCompare(kernel, left, right) ==
    IF kernel = "Compare" THEN Compare(OpNOTIN, left, right)
    ELSE IF kernel = "string" THEN notinStringMatcher(left, right)
    ELSE IF kernel = "int" THEN notinIntMatcher(left, right)
    ELSE notinUintMatcher(left, right)

\* IN.Compare and NotIN.Compare on the same operands
CallInKernels ==
    /\ pc = "start"
    /\ \E kernel \in InKernels, n \in 1..Len(InLefts), right \in InOperands :
         /\ param' = [kernel |-> kernel, left |-> InLefts[n], right |-> right]
         /\ answer' = [in |-> INCompare(kernel, InLefts[n], right),
                       notin |-> NotINCompare(kernel, InLefts[n], right)]
    /\ pc' = "compared"
    /\ UNCHANGED <<comparators, text, pquery, perr, query, qerr, lastRecord, lastMatch,
                   lastErr, list, only, idx, result, str, reparsed, table, threads>>

NextKernels ==
    \/ CallInKernels

SpecKernels == Init /\ [][NextKernels]_vars

---------------------------------------------------------------------------
(* The operator table filled on first use (initComparables, called at the
   head of CreateComparator), with several goroutines building and
   evaluating queries.  The table is the sequence of the writes made to the
   map; a goroutine is at "idle", in initComparables before its test of
   len(comparables) ("init"), in the body of the if ("fill"), in the rest of
   CreateComparator ("resolve"), holding its query ("created"), or behind its
   lookup in Comparator.Match ("matched", "panicked"). *)

\* the order in which initComparables writes the entries
Registration == <<Eq, Neq, OpNOTIN, OpIN, GT, LT, GTEQ, LTEQ>>

\* the keys of the map
TableKeys == { table[i] : i \in 1..Len(table) }

\* what the goroutines' steps on the table leave alone
TableFrame ==
    UNCHANGED <<comparators, text, pquery, perr, query, qerr, lastRecord, lastMatch,
                lastErr, list, only, idx, result, str, reparsed, pc, param, answer>>

\* CreateComparator is entered: initComparables() is called
EnterCreateComparator(g) ==
    /\ threads[g].at = "idle"
    /\ threads' = [threads EXCEPT ![g].at = "init"]
    /\ UNCHANGED table
    /\ TableFrame

\* initComparables: if len(comparables) == 0
TestEmpty(g) ==
    /\ threads[g].at = "init"
    /\ threads' = [threads EXCEPT ![g].at = IF Len(table) = 0 THEN "fill" ELSE "resolve",
                                  ![g].next = 1]
    /\ UNCHANGED table
    /\ TableFrame

\* initComparables: comparables[op] = ..., one entry
Register(g) ==
    /\ threads[g].at = "fill"
    /\ table' = Append(table, Registration[threads[g].next])
    /\ threads' = [threads EXCEPT
                      ![g].at = IF threads[g].next = Len(Registration) THEN "resolve" ELSE "fill",
                      ![g].next = threads[g].next + 1]
    /\ TableFrame

\* the rest of CreateComparator: the query is built
ReturnComparator(g) ==
    /\ threads[g].at = "resolve"
    /\ threads' = [threads EXCEPT ![g].at = "created"]
    /\ UNCHANGED table
    /\ TableFrame

\* Comparator.Match: matcher := comparables[this.operation], a panic on nil
LookupMatcher(g) ==
    /\ threads[g].at = "created"
    /\ \E op \in comparables :
         threads' = [threads EXCEPT
                        ![g].found = IF op \in TableKeys THEN "matcher" ELSE "nil",
                        ![g].at = IF op \in TableKeys THEN "matched" ELSE "panicked"]
    /\ UNCHANGED table
    /\ TableFrame

\* the goroutines, interleaved
NextTable ==
    \E g \in Goroutines :
        \/ EnterCreateComparator(g)
        \/ TestEmpty(g)
        \/ Register(g)
        \/ ReturnComparator(g)
        \/ LookupMatcher(g)

SpecTable == Init /\ [][NextTable]_vars

---------------------------------------------------------------------------
(* propertyPath on its own: the identifiers a comparator's side, a column or
   a sort key can hand to it. *)

MaxPath == 4

PathLetters == {"t", ".", "s", "x"}

PathIdentifiers == UNION { [1..n -> PathLetters] : n \in 1..MaxPath }

\* propertyPath(colName, rootTable.TypeName), as initColumns and
\* CreateComparator call it
CallPropertyPath ==
    /\ pc = "start"
    /\ \E colName \in PathIdentifiers :
         /\ param' = colName
         /\ answer' = propertyPath(colName, RootTypeName)
    /\ pc' = "qualified"
    /\ UNCHANGED <<comparators, text, pquery, perr, query, qerr, lastRecord, lastMatch,
                   lastErr, list, only, idx, result, str, reparsed, table, threads>>

NextPath == CallPropertyPath

SpecPath == Init /\ [][NextPath]_vars

---------------------------------------------------------------------------
(* Where clauses whose keyword is written in every letter case: a comparator
   with " in " or " not in ", and two comparators joined by " and " or
   " or ". *)

\* strings.ToUpper of one lower-case letter
UpperOf(c) ==
    IF \E i \in 1..Len(LowerLetters) : LowerLetters[i] = c
    THEN UpperLetters[CHOOSE i \in 1..Len(LowerLetters) : LowerLetters[i] = c]
    ELSE c

\* the spellings of s in every letter case
RECURSIVE CaseVariants(_)
CaseVariants(s) ==
    IF s = <<>> THEN {<<>>}
    ELSE { <<c>> \o rest : c \in {s[1], UpperOf(s[1])}, rest \in CaseVariants(Tail(s)) }

KeywordOperands == { <<"[", "1", ",", "2", "]">>, <<"[", "x", "]">>, <<"1">> }

KeywordClauses ==
    { left \o keyword \o right :
        left \in {<<"i">>, <<"s">>},
        keyword \in CaseVariants(OpIN) \cup CaseVariants(OpNOTIN),
        right \in KeywordOperands }
    \cup { CmpI \o connective \o CmpS : connective \in CaseVariants(And) \cup CaseVariants(Or) }

KeywordTexts == { QueryText(Star, w, <<>>) : w \in KeywordClauses }

CallNewQueryKeyword == NewQueryOn(KeywordTexts)

NextKeyword ==
    \/ CallInitComparators
    \/ CallNewQueryKeyword

SpecKeyword == Init /\ [][NextKeyword]_vars

---------------------------------------------------------------------------
(* NewCompare on its own: comparator leaves put together from a left side,
   an operator token (or none) and a right side, quoted or not. *)

\* right sides that hold no operator token
QuoteRights ==
    { <<"1">>, <<"X">>, <<"x", " ", "Y">>,
      <<"\"", "X", "\"">>, <<" ", "\"", "X", "y", "\"", " ">>, <<"\"", "\"">>, <<"\"">>,
      <<"'", "X", "'">>, <<" ", "'", "X", "y", "'">>, <<"'", "X">>, <<"\"", "X", "'">> }

\* right sides that hold another operator token
TokenRights == { <<"1", "=", "2">>, <<"b", ">", "1">>, <<"1", "<", "=">> }

CompareLefts == { <<"a">>, <<" ", "A", " ">>, <<"a", "<">>, <<"a", "!">> }

CompareTokens == { OrderedComparators[k] : k \in 1..Len(OrderedComparators) } \cup {<<>>}

CompareLeaves ==
    { [ws |-> left \o token \o right, left |-> left, token |-> token, right |-> right] :
        left \in CompareLefts, token \in CompareTokens, right \in QuoteRights \cup TokenRights }

\* parser.NewCompare(ws)
CallNewCompare ==
    /\ pc = "start"
    /\ \E leaf \in CompareLeaves :
         /\ param' = leaf
         /\ answer' = NewCompare(leaf.ws)
    /\ pc' = "compared"
    /\ UNCHANGED <<comparators, text, pquery, perr, query, qerr, lastRecord, lastMatch,
                   lastErr, list, only, idx, result, str, reparsed, table, threads>>

NextCompare ==
    \/ CallInitComparators
    \/ CallNewCompare

SpecCompare == Init /\ [][NextCompare]_vars

---------------------------------------------------------------------------
(* The string kernel of Equal on its own: strings over a few letters, the
   wildcard and the single quote, and slices of such strings on the left. *)

MaxWild == 3

EqLetters == {"a", "b", "*", "'"}

\* the right operands
EqRights == UNION { [1..n -> EqLetters] : n \in 0..MaxWild } \cup { <<"n", "i", "l">> }

\* the left operands
EqLefts ==
    UNION { [1..n -> EqLetters] : n \in 0..2 }
    \cup { <<"n", "i", "l">>, <<"A">>, <<"a", "b", "a">>, <<"'", "a", "'">>, <<"b", "a", "'">> }

\* the elements of a slice on the left
EqElements == { <<"a">>, <<"b">>, <<"*">>, <<"a", "b">>, <<"'">> }

EqSlices == UNION { [1..n -> EqElements] : n \in 0..2 }

\* Equal's string kernel on two strings
CallEqualStrings ==
    /\ pc = "start"
    /\ \E left \in EqLefts, right \in EqRights :
         /\ param' = [left |-> StrV(left), right |-> StrV(right)]
         /\ answer' = eqStringMatcher(StrV(left), StrV(right))
    /\ pc' = "compared"
    /\ UNCHANGED <<comparators, text, pquery, perr, query, qerr, lastRecord, lastMatch,
                   lastErr, list, only, idx, result, str, reparsed, table, threads>>

\* Equal's string kernel on a slice of strings and a string
CallEqualSlice ==
    /\ pc = "start"
    /\ \E elems \in EqSlices, right \in EqRights :
         /\ param' = [left |-> SliceV([i \in 1..Len(elems) |-> StrV(elems[i])]),
                      right |-> StrV(right)]
         /\ answer' = eqStringMatcher(SliceV([i \in 1..Len(elems) |-> StrV(elems[i])]),
                                      StrV(right))
    /\ pc' = "compared"
    /\ UNCHANGED <<comparators, text, pquery, perr, query, qerr, lastRecord, lastMatch,
                   lastErr, list, only, idx, result, str, reparsed, table, threads>>

NextEqual ==
    \/ CallEqualStrings
    \/ CallEqualSlice

SpecEqual == Init /\ [][NextEqual]_vars

---------------------------------------------------------------------------
(* Query texts with white space before and behind them. *)

Paddings == { <<>>, <<" ">>, <<" ", " ">> }

PaddedClauses == { <<>>, CmpI, CmpS \o And \o CmpI }

PaddedFlags ==
    { <<>>, Sp \o SortBy \o Sp \o <<"s">>, Sp \o Limit \o Sp \o <<"5">>,
      Sp \o Page \o Sp \o <<"2">>, Sp \o Limit \o Sp \o <<"5">> \o Sp \o Page \o Sp \o <<"2">> }

PaddedTexts ==
    { before \o QueryText(cols, w, fl) \o behind :
        before \in Paddings, behind \in Paddings,
        cols \in {Star, <<"s", ",", "i">>}, w \in PaddedClauses, fl \in PaddedFlags }

CallNewQueryPadded == NewQueryOn(PaddedTexts)

NextPadded ==
    \/ CallInitComparators
    \/ CallNewQueryPadded

SpecPadded == Init /\ [][NextPadded]_vars

---------------------------------------------------------------------------
(* Where clauses of two and three comparators joined by " and " and " or ",
   bare and in groups, evaluated on records one field of which may fail to
   be read. *)

BranchComparators == {CmpS, CmpI, CmpU}

BranchClauses ==
    { c1 \o o \o c2 : c1 \in BranchComparators, c2 \in BranchComparators, o \in Connectives }
    \cup { <<"(">> \o c1 \o <<")">> \o o \o <<"(">> \o c2 \o <<")">> :
             c1 \in BranchComparators, c2 \in BranchComparators, o \in Connectives }
    \cup { c1 \o o \o <<"(">> \o c2 \o <<")">> :
             c1 \in BranchComparators, c2 \in BranchComparators, o \in Connectives }
    \cup { <<"(">> \o CmpS \o o1 \o c2 \o <<")">> \o o2 \o CmpI :
             c2 \in BranchComparators, o1 \in Connectives, o2 \in Connectives }

BranchTexts == { QueryText(Star, w, <<>>) : w \in BranchClauses }

BranchRecords == <<RecX, RecY, RecBroken, Foreign>>

CallNewQueryBranches == NewQueryOn(BranchTexts)

\* Query.match(any) and Query.Match(any) on a record of BranchRecords
CallMatchBranches ==
    /\ pc \in {"built", "matched"}
    /\ \E any \in 1..Len(BranchRecords) : \E rec \in {BranchRecords[any]} :
         \E m \in {match(query, rec)} :
            /\ lastRecord' = rec
            /\ lastMatch' = IF m.panic THEN "panic" ELSE BoolStr(m.v)
            /\ lastErr' = m.e
            /\ pc' = IF m.panic THEN "panicked" ELSE "matched"
    /\ UNCHANGED <<others, comparators, text, pquery, perr, query, qerr,
                   list, only, idx, result, str, reparsed>>

NextBranches ==
    \/ CallInitComparators
    \/ CallNewQueryBranches
    \/ CallNewFromQuery
    \/ CallMatchBranches

SpecBranches == Init /\ [][NextBranches]_vars

---------------------------------------------------------------------------
(* The descent of the where-clause parser, one activation at a time. The
   pending calls are kept in the order the code makes them; every function
   returns at once when a callee returns an error, so a failure anywhere
   ends the whole parse. A call records the depth of the node it builds
   and, for each of the four functions, the length of the argument of the
   nearest enclosing activation of that function (-1 when there is none). *)

Recursive == {"parseExpression", "parseWithBrackets", "parseBeforeBrackets", "NewCondition"}

\* chains of at most MaxNest comparisons and groups nested MaxNest deep
MaxNest == 3

RECURSIVE ChainsOf(_)
ChainsOf(n) ==
    IF n = 1 THEN {A1}
    ELSE { A1 \o o \o rest : o \in Connectives, rest \in ChainsOf(n - 1) }

RECURSIVE NestsOf(_)
NestsOf(n) ==
    IF n = 0 THEN {A1, A1 \o And \o B2}
    ELSE { <<"(">> \o w \o <<")">> : w \in NestsOf(n - 1) }
         \cup { <<"(">> \o w \o <<")">> \o Or \o B2 : w \in NestsOf(n - 1) }

DescentClauses ==
    UNION { ChainsOf(n) : n \in 1..MaxNest }
    \cup UNION { NestsOf(n) : n \in 0..MaxNest }
    \cup NamedClauses
    \cup { <<>>, Eq, <<"(", ")">>, <<"(">>, <<" ", "(", " ">> \o A1 \o <<" ", ")", " ">>,
           A1 \o And, And \o A1, <<"(">> \o A1 \o <<")">> \o And }

Call(fn, ws, depth, over) == [fn |-> fn, ws |-> ws, depth |-> depth, over |-> over]

\* the enclosing activations as a callee of the activation f sees them
Within(f) == [f.over EXCEPT ![f.fn] = Len(f.ws)]

DescentFrame ==
    UNCHANGED <<table, threads, comparators, text, pquery, perr, query, qerr, lastRecord,
                lastMatch, lastErr, list, only, idx, result, str, reparsed>>

\* the running activation returns after making the calls of made, in order
Descend(made) ==
    /\ answer' = [answer EXCEPT
                    !.calls = made \o Tail(answer.calls),
                    !.deepest = Max({answer.deepest} \cup { made[k].depth : k \in 1..Len(made) })]
    /\ UNCHANGED <<pc, param>>
    /\ DescentFrame

\* the running activation returns an error, and so does every caller of it
Refuse ==
    /\ answer' = [answer EXCEPT !.calls = <<>>]
    /\ pc' = "refused"
    /\ UNCHANGED param
    /\ DescentFrame

Running(fn) ==
    /\ pc = "descending"
    /\ answer.calls # <<>>
    /\ Head(answer.calls).fn = fn

\* the arguments of the recursive calls
\* parseExpression(ws[1:be])
ChildTextWhole(ws, be) == Slice(ws, 0, be + 1)
ChildText(ws, be) == Slice(ws, 1, be)

\* parseExpression(ws[be+1+loc+len(op):])
BehindGroup(ws, be, o) == Slice(ws, be + 1 + o.loc + Len(o.op), Len(ws))

\* parseExpression(ws[bo:])
FromGroup(ws, bo) == Slice(ws, bo, Len(ws))

\* ws = ws[loc+len(op):]; NewCondition(ws)
BehindConnective(ws, f) == Slice(ws, f.loc + Len(f.op), Len(ws))

\* the where clause is handed to parseExpression
EnterParseExpression ==
    /\ pc = "start"
    /\ \E ws \in DescentClauses :
         /\ param' = ws
         /\ answer' = [calls |-> <<Call("parseExpression", ws, 0, [fn \in Recursive |-> -1])>>,
                       deepest |-> 0,
                       ready |-> Len(comparators) > 0]
    /\ pc' = "descending"
    /\ DescentFrame

\* parseExpression(ws): trims and dispatches on the first "("
StepParseExpression ==
    /\ Running("parseExpression")
    /\ \E f \in {Head(answer.calls)} : \E ws \in {TrimSpace(f.ws)} : \E bo \in {getBO(ws)} :
         Descend(<<IF bo = -1 THEN Call("NewCondition", ws, f.depth + 1, Within(f))
                   ELSE IF bo > 0 THEN Call("parseBeforeBrackets", ws, f.depth, Within(f))
                   ELSE Call("parseWithBrackets", ws, f.depth, Within(f))>>)

\* parseWithBrackets(ws, bo) up to the call that parses the group
StepParseWithBrackets ==
    /\ Running("parseWithBrackets")
    /\ \E f \in {Head(answer.calls)} : \E be \in {getBE(f.ws, 0)} :
         IF be.e # NoErr THEN Refuse
         ELSE Descend(<<Call("parseExpression", ChildText(f.ws, be.v), f.depth + 1, Within(f)),
                        Call("behind the group", f.ws, f.depth, Within(f))>>)

\* parseWithBrackets(ws, bo) from the return of the group's parse
StepBehindGroup ==
    /\ Running("behind the group")
    /\ \E f \in {Head(answer.calls)} : \E be \in {getBE(f.ws, 0).v} :
         IF be < Len(f.ws) - 1
         THEN \E o \in {getFirstConditionOp(Slice(f.ws, be + 1, Len(f.ws)))} :
                IF o.e # NoErr THEN Refuse
                ELSE Descend(<<Call("parseExpression", BehindGroup(f.ws, be, o),
                                    f.depth + 1, f.over)>>)
         ELSE Descend(<<>>)

\* parseBeforeBrackets(ws, bo)
StepParseBeforeBrackets ==
    /\ Running("parseBeforeBrackets")
    /\ \E f \in {Head(answer.calls)} : \E bo \in {getBO(f.ws)} :
       \E o \in {getLastConditionOp(Slice(f.ws, 0, bo))} :
         IF o.e # NoErr THEN Refuse
         ELSE Descend(<<Call("NewCondition", Slice(Slice(f.ws, 0, bo), 0, o.loc),
                             f.depth + 1, Within(f)),
                        Call("parseExpression", FromGroup(f.ws, bo), f.depth + 1, Within(f))>>)

\* NewCondition(ws)
StepNewCondition ==
    /\ Running("NewCondition")
    /\ \E f \in {Head(answer.calls)} : \E o \in {FirstOp(f.ws)} :
       \E cmpr \in {NewCompare(IF o.loc = MAX_EXPRESSION_SIZE THEN f.ws
                               ELSE Slice(f.ws, 0, o.loc))} :
         IF cmpr.e # NoErr THEN Refuse
         ELSE IF o.loc = MAX_EXPRESSION_SIZE THEN Descend(<<>>)
         ELSE Descend(<<Call("NewCondition", BehindConnective(f.ws, o), f.depth + 1, Within(f))>>)

\* the first parseExpression returns the tree
ReturnTree ==
    /\ pc = "descending"
    /\ answer.calls = <<>>
    /\ pc' = "returned"
    /\ UNCHANGED <<param, answer>>
    /\ DescentFrame

ParseSteps ==
    \/ StepParseExpression
    \/ StepParseWithBrackets
    \/ StepBehindGroup
    \/ StepParseBeforeBrackets
    \/ StepNewCondition
    \/ ReturnTree

NextDescent ==
    \/ CallInitComparators
    \/ EnterParseExpression
    \/ StepParseExpression
    \/ StepParseWithBrackets
    \/ StepBehindGroup
    \/ StepParseBeforeBrackets
    \/ StepNewCondition
    \/ ReturnTree

\* a goroutine that is inside the parser keeps running
SpecDescent == Init /\ [][NextDescent]_vars /\ WF_vars(ParseSteps)

---------------------------------------------------------------------------
(* Properties. *)

\* a o b for a connective o
Connect(o, a, b) == IF o = And THEN a /\ b ELSE a \/ b

\* ((c1 o1 c2) o2 c3) on a record, c1 = (i=1), c2 = (u=2), c3 = (s=x)
LeftToRight(o1, o2, r) ==
    Connect(o2, Connect(o1, r.f.i = IntV(1), r.f.u = UintV(2)), r.f.s = StrV(<<"x">>))

\* C1: connectives are evaluated left to right with no precedence: for the
\* where clause c1 o1 c2 o2 c3, bare or as parenthesized groups, Match returns
\* the value of ((c1 o1 c2) o2 c3) whatever the truth values of the comparators.
C1_LeftToRight ==
    \A o1 \in Connectives, o2 \in Connectives :
        ( /\ pc = "matched"
          /\ lastRecord \in TRecords
          /\ text \in { QueryText(Star, Chain(o1, o2), <<>>),
                        QueryText(Star, Groups(o1, o2), <<>>) } )
        => lastMatch = BoolStr(LeftToRight(o1, o2, lastRecord))

\* the query is one comparator and nothing else
SingleComparator(q) ==
    /\ q.where # Nil
    /\ q.where.condition # Nil
    /\ q.where.child = Nil
    /\ q.where.next = Nil
    /\ q.where.condition.next = Nil

\* the kernel's verdict on a literal left operand and the fetched right value
RightBoundKernel(q, cmp, r) ==
    Compare(cmp.operation,
            IF q.matchCase THEN StrV(cmp.left) ELSE toLowerValue(StrV(cmp.left)),
            IF q.matchCase THEN Get(cmp.rightProperty, r).v
            ELSE toLowerValue(Get(cmp.rightProperty, r).v))

\* C2: a comparator whose right operand is bound to a property, on a record
\* the accessor succeeds on, returns the kernel's result on the left value and
\* the fetched right value, with a nil error.
C2_RightBound ==
    ( /\ pc = "matched"
      /\ lastRecord \in TRecords
      /\ SingleComparator(query)
      /\ query.where.condition.comparator.leftProperty = Nil
      /\ query.where.condition.comparator.rightProperty # Nil
      /\ ~RightBoundKernel(query, query.where.condition.comparator, lastRecord).panic )
    => /\ lastErr = NoErr
       /\ lastMatch = BoolStr(RightBoundKernel(query, query.where.condition.comparator,
                                               lastRecord).v)

\* C3: the query s="Hello" match-case matches a record whose s is exactly
\* Hello and matches none whose s is hello or HELLO.
C3_MatchCase ==
    ( /\ pc = "matched"
      /\ lastRecord \in TRecords
      /\ text = QueryText(Star, HelloClause, MatchCaseFlag) )
    => (lastMatch = "true" <=> lastRecord.f.s = StrV(Hello))

\* the queries field=* over a string, a signed, an unsigned and a slice field
WildcardTexts == { QueryText(Star, <<fld>> \o Eq \o Star, <<>>) : fld \in {"s", "i", "u", "l"} }

\* C4: the query field=* matches every record of the root type, whatever the
\* kind of the field.
C4_Wildcard ==
    ( /\ pc = "matched"
      /\ lastRecord \in TRecords
      /\ text \in WildcardTexts )
    => lastMatch = "true"

\* C5: evaluating Match (directly or from Filter) on a constructed query never
\* panics.
C5_NoPanic == pc # "panicked"

\* the limit clause l in a header text
LimitText(l, fl) == QueryText(Star, <<>>, Sp \o Limit \o Sp \o l \o fl)

C7_SortFlags ==
    (pc = "parsed" /\ perr = NoErr)
    => /\ (Index(text, Descending) # -1 /\ Index(text, Ascending) = -1)
            => pquery.Descending
       /\ (Index(text, Descending) # -1 /\ Index(text, Ascending) > Index(text, Descending))
            => ~pquery.Descending
       /\ (Index(text, Descending) = -1 /\ Index(text, Ascending) = -1)
            => ~pquery.Descending

C7_Witness ==
    /\ pc = "parsed"
    /\ perr = NoErr
    /\ text = QueryText(Star, <<>>, Sp \o Descending \o Sp \o Ascending)
    /\ ~pquery.Descending

\* the comparators and connectives of a condition chain, in order
RECURSIVE ConditionLeaves(_)
ConditionLeaves(c) ==
    <<c.Comparator>> \o (IF c.Next # Nil THEN <<c.Oper>> \o ConditionLeaves(c.Next) ELSE <<>>)

\* the comparators and connectives of an expression tree, in order
RECURSIVE ExpressionLeaves(_)
ExpressionLeaves(e) ==
    (IF e.Condition # Nil THEN ConditionLeaves(e.Condition) ELSE <<>>)
    \o (IF e.Child # Nil THEN ExpressionLeaves(e.Child) ELSE <<>>)
    \o (IF e.Next # Nil THEN <<e.AndOr>> \o ExpressionLeaves(e.Next) ELSE <<>>)

\* C8: the string form of an accepted where clause parses again, to the same
\* comparators (left, operator, right) and connectives in the same order.
C8_RoundTrip ==
    pc = "reparsed"
    => /\ reparsed.e = NoErr
       /\ ExpressionLeaves(reparsed.v) = ExpressionLeaves(pquery.Criteria)

\* the where clause of a text select * from t where <clause>
ClauseOf(txt) == Slice(txt, Len(QueryText(Star, <<"x">>, <<>>)) - 1, Len(txt))

\* every ")" of s[i..] closes an open "(", and none stays open
RECURSIVE BalancedFrom(_, _, _)
BalancedFrom(s, i, depth) ==
    IF i > Len(s) THEN depth = 0
    ELSE IF s[i] = "(" THEN BalancedFrom(s, i + 1, depth + 1)
    ELSE IF s[i] = ")" THEN depth > 0 /\ BalancedFrom(s, i + 1, depth - 1)
    ELSE BalancedFrom(s, i + 1, depth)

\* C9: NewQuery returns an error for every where clause whose parentheses
\* are unbalanced; with the operator list in place, the balanced nested clause
\* ((a=1 and b=2) or c=3) parses.
C9_Unbalanced ==
    pc = "parsed"
    => /\ ~BalancedFrom(ClauseOf(text), 1, 0) => perr # NoErr
       /\ (comparators # <<>> /\ text = QueryText(Star, NestedClause, <<>>)) => perr = NoErr

\* the records of lst that match, in order
RECURSIVE MatchingOf(_, _)
MatchingOf(q, lst) ==
    IF lst = <<>> THEN <<>>
    ELSE (IF match(q, Head(lst)).v THEN <<Head(lst)>> ELSE <<>>) \o MatchingOf(q, Tail(lst))

\* what Filter hands back for a matching record
Returned(q, r) ==
    IF ~only \/ Len(q.properties) = 0 THEN r ELSE cloneOnlyWithColumns(q, r)

\* C10: Filter returns, in input order and untruncated, exactly the records
\* of its list that match (as their column-only clones when that was asked
\* for); a record whose accessor fails does not match, is left out, and the
\* records after it are still evaluated.
C10_Filter ==
    pc = "filtered"
    => /\ idx = Len(list)
       /\ Len(result) = Len(MatchingOf(query, list))
       /\ \A k \in 1..Len(result) : result[k] = Returned(query, MatchingOf(query, list)[k])
       /\ \A k \in 1..Len(list) :
            match(query, list[k]).e # NoErr
            => /\ ~QueryMatch(query, list[k]).v
               /\ \A j \in 1..Len(result) : result[j] # list[k]

C10_Witness ==
    /\ pc = "filtered"
    /\ list = <<RecX, Foreign, RecX>>
    /\ match(query, Foreign).e # NoErr
    /\ result = <<RecX, RecX>>

\* the comparators of a resolved condition chain, in reading order
RECURSIVE ComparatorsOfCondition(_)
ComparatorsOfCondition(c) ==
    <<c.comparator>> \o (IF c.next # Nil THEN ComparatorsOfCondition(c.next) ELSE <<>>)

\* the comparators of a resolved where tree, in reading order
RECURSIVE ComparatorsOf(_)
ComparatorsOf(e) ==
    IF e = Nil THEN <<>>
    ELSE (IF e.condition # Nil THEN ComparatorsOfCondition(e.condition) ELSE <<>>)
         \o ComparatorsOf(e.child) \o ComparatorsOf(e.next)

\* the comparators of a parsed condition chain, in reading order
RECURSIVE ParsedOfCondition(_)
ParsedOfCondition(c) ==
    <<c.Comparator>> \o (IF c.Next # Nil THEN ParsedOfCondition(c.Next) ELSE <<>>)

\* the comparators of a parsed where tree, in reading order
RECURSIVE ParsedOf(_)
ParsedOf(e) ==
    IF e = Nil THEN <<>>
    ELSE (IF e.Condition # Nil THEN ParsedOfCondition(e.Condition) ELSE <<>>)
         \o ParsedOf(e.Child) \o ParsedOf(e.Next)

\* the operand names a field of the root type, with or without the type's name
NamesField(operand) ==
    \E fld \in FieldNames :
        ToLower(operand) \in { <<fld>>, ToLower(RootTypeName) \o <<".", fld>> }

\* C11: every comparator of a query NewFromQuery returned without error has
\* its left or its right side bound to a property; when some comparator of
\* the parsed where tree has no side that names a field, NewFromQuery returns
\* an error and no query.
C11_Resolution ==
    pc \in InspectReady \cup {"rejected", "panicked"}
    => /\ qerr = NoErr
          => /\ query # Nil
             /\ \A k \in 1..Len(ComparatorsOf(query.where)) :
                    \/ ComparatorsOf(query.where)[k].leftProperty # Nil
                    \/ ComparatorsOf(query.where)[k].rightProperty # Nil
       /\ (\E k \in 1..Len(ParsedOf(pquery.Criteria)) :
               /\ ~NamesField(ParsedOf(pquery.Criteria)[k].Left)
               /\ ~NamesField(ParsedOf(pquery.Criteria)[k].Right))
          => (qerr # NoErr /\ query = Nil)

\* the comparator without a field stands second, inside a group
C11_Witness ==
    /\ pc = "rejected"
    /\ text = QueryText(Star, CmpS \o And \o <<"(">> \o <<"z">> \o Eq \o <<"1">> \o <<")">>, <<>>)
    /\ qerr # NoErr
    /\ query = Nil

\* the literal side of the first comparator of cs[k..] that has exactly one
\* side bound to a property; empty when there is none
RECURSIVE FirstLiteralFrom(_, _)
FirstLiteralFrom(cs, k) ==
    IF k > Len(cs) THEN <<>>
    ELSE IF cs[k].leftProperty # Nil /\ cs[k].rightProperty = Nil THEN cs[k].right
    ELSE IF cs[k].leftProperty = Nil /\ cs[k].rightProperty # Nil THEN cs[k].left
    ELSE FirstLiteralFrom(cs, k + 1)

\* C12: KeyOf returns the literal side of the first comparator, in reading
\* order of the where tree, that has one side bound and the other a literal,
\* skipping the comparators with both sides bound; it returns the empty string
\* when there is no where clause or no such comparator.
C12_KeyOf ==
    pc = "keyed" => answer = FirstLiteralFrom(ComparatorsOf(query.where), 1)

\* the comparator mentions the name on one of its sides
Mentions(c, name) == c.left = name \/ c.right = name

\* the side of the comparator opposite to the name
OtherSide(c, name) == IF c.right = name THEN c.left ELSE c.right

\* the first comparator of cs[k..] that mentions the name; 0 when none does
RECURSIVE FirstMention(_, _, _)
FirstMention(cs, k, name) ==
    IF k > Len(cs) THEN 0
    ELSE IF Mentions(cs[k], name) THEN k
    ELSE FirstMention(cs, k + 1, name)

\* the first comparator of cs[k..] that mentions the name opposite to a
\* non-empty side; 0 when none does
RECURSIVE FirstValuedMention(_, _, _)
FirstValuedMention(cs, k, name) ==
    IF k > Len(cs) THEN 0
    ELSE IF Mentions(cs[k], name) /\ OtherSide(cs[k], name) # <<>> THEN k
    ELSE FirstValuedMention(cs, k + 1, name)

\* C13 as stated: a non-empty value returned by ValueForParameter(p) stands
\* opposite to p in a comparator of the where tree, and it is the value of the
\* first comparator, in reading order, that mentions p.
C13_FirstMention ==
    (pc = "valued" /\ answer # <<>>)
    => /\ \E k \in 1..Len(ComparatorsOf(query.where)) :
            /\ Mentions(ComparatorsOf(query.where)[k], param)
            /\ answer = OtherSide(ComparatorsOf(query.where)[k], param)
       /\ answer = OtherSide(ComparatorsOf(query.where)
                                [FirstMention(ComparatorsOf(query.where), 1, param)], param)

\* C13: ValueForParameter(p) returns the side opposite to p of the first
\* comparator, in reading order (condition, then child, then next), that
\* mentions p opposite to a non-empty side, and the empty string when there is
\* no such comparator; a comparator whose opposite side is empty is no hit.
C13_ValueForParameter ==
    pc = "valued"
    => IF FirstValuedMention(ComparatorsOf(query.where), 1, param) = 0
       THEN answer = <<>>
       ELSE answer = OtherSide(ComparatorsOf(query.where)
                                  [FirstValuedMention(ComparatorsOf(query.where), 1, param)],
                               param)

\* two groups mention s with different values: the first one's is returned
C13_Witness ==
    /\ pc = "valued"
    /\ text = QueryText(Star, <<"(">> \o <<"x">> \o Eq \o <<"s">> \o <<")">> \o Or
                               \o <<"(">> \o <<"s">> \o Eq \o <<"y">> \o <<")">>, <<>>)
    /\ param = <<"s">>
    /\ answer = <<"x">>

\* the operand is a list in brackets
Bracketed(right) ==
    /\ Len(right.v) >= 2
    /\ right.v[1] = "["
    /\ right.v[Len(right.v)] = "]"

\* C14: on a bracketed list operand not in is the pointwise negation of in,
\* through Compare and in the string, the signed and the unsigned kernel, also
\* when the left value or a list entry is no integer; the one aborts exactly
\* when the other does.
C14_NotInNegatesIn ==
    (pc = "compared" /\ Bracketed(param.right))
    => /\ answer.notin.panic = answer.in.panic
       /\ ~answer.in.panic => (answer.notin.v = ~answer.in.v)

\* the signed kernel on a left value that is no integer
C14_Witness ==
    /\ pc = "compared"
    /\ param.kernel = "int"
    /\ param.left.k = "string"
    /\ param.left.v = <<"x">>
    /\ param.right = StrV(<<"[", "1", ",", "2", "]">>)
    /\ answer.in = R(FALSE)
    /\ answer.notin = R(TRUE)

\* the value with every string in it lower-cased
LowerStrings(value) ==
    IF value.k = "string" THEN StrV([i \in 1..Len(value.v) |-> LowerChar(value.v[i])])
    ELSE IF value.k = "slice"
    THEN SliceV([j \in 1..Len(value.v) |->
                    StrV([i \in 1..Len(value.v[j].v) |-> LowerChar(value.v[j].v[i])])])
    ELSE value

\* the record with every string value lower-cased
LowerAllStrings(r) ==
    [r EXCEPT !.f.s = LowerStrings(r.f.s), !.f.l = LowerStrings(r.f.l)]

\* what a Match call leaves behind
Outcome(m) == IF m.panic THEN "panic" ELSE BoolStr(m.v)

\* C15: without the match-case flag Match gives a record and the record with
\* all its strings lower-cased (those inside slices too) the same result.
C15_CaseInsensitive ==
    ( /\ pc \in {"matched", "panicked"}
      /\ ~query.matchCase
      /\ lastRecord \in TRecords \cup {RecUpper} )
    => lastMatch = Outcome(match(query, LowerAllStrings(lastRecord)))

\* an upper-case slice element matched by a lower-case literal
C15_Witness ==
    /\ pc = "matched"
    /\ text = QueryText(Star, <<"l">> \o Eq \o <<"x">>, <<>>)
    /\ lastRecord = RecUpper
    /\ lastMatch = "true"

\* the fields the query projects
ProjectedFields(q) == { q.properties[j].field : j \in 1..Len(q.properties) }

\* the record e carries the source's value in the projected fields and the
\* zero value in every other field
ProjectionOf(q, e, source) ==
    /\ e.type = source.type
    /\ \A fld \in FieldNames :
         e.f[fld] = IF fld \in ProjectedFields(q) THEN source.f[fld]
                    ELSE ZeroRecord(source.type).f[fld]

\* C16: with onlySelectedColumns and a non-empty projection list Filter
\* returns, for each matching record of the root type, a record of the same
\* type that carries the source's values in exactly the projected fields and
\* the zero value elsewhere, and projecting that record again gives an equal
\* record; with select * it returns the matching records themselves.
C16_Projection ==
    (pc = "filtered" /\ only)
    => IF Len(query.properties) = 0
       THEN result = MatchingOf(query, list)
       ELSE /\ Len(result) = Len(MatchingOf(query, list))
            /\ \A k \in 1..Len(result) :
                 MatchingOf(query, list)[k] # Foreign
                 => /\ ProjectionOf(query, result[k], MatchingOf(query, list)[k])
                    /\ cloneOnlyWithColumns(query, result[k]) = result[k]

\* one column of a record that has non-zero values in other fields
C16_Witness ==
    /\ pc = "filtered"
    /\ only
    /\ text = QueryText(<<"s">>, CmpS, <<>>)
    /\ list = <<RecX, RecY, RecX>>
    /\ Len(result) = 2
    /\ result[1].f.s = StrV(<<"x">>)
    /\ result[1].f.i = IntV(0)
    /\ result[1] # RecX

\* goroutine g is about to write the table while another goroutine is about
\* to read or write it, with nothing that orders the two
RacingWrite ==
    \E g \in Goroutines, h \in Goroutines :
        /\ g # h
        /\ threads[g].at = "fill"
        /\ threads[h].at \in {"init", "fill", "created"}

\* C17: the operator table is initialised exactly once and only read
\* afterwards, also with queries built at the same time: no write of the table
\* is concurrent with a read or a write by another goroutine, each entry is
\* written once, and no Match looks an operator up in a partly filled table.
C17_TableOnce ==
    /\ ~RacingWrite
    /\ Len(table) <= Len(Registration)
    /\ \A g \in Goroutines : threads[g].found # "nil"

\* C18: Match, Filter, SortByValue, KeyOf, ValueForParameter and Hash leave
\* the query as NewFromQuery built it (tree, bindings, header), so whatever
\* calls came before, on whatever records, each call returns what it returns
\* on a query that has just been built.
C18_Frame ==
    pc \in InspectReady =>
        \E fresh \in {NewFromQuery(pquery).v} :
            /\ query = fresh
            /\ pquery = init(text).v
            /\ lastRecord # Nil => lastMatch = Outcome(match(fresh, lastRecord))
            /\ pc = "keyed" => answer = KeyOf(fresh)
            /\ pc = "valued" => answer = ValueForParameter(fresh, param)
            /\ pc = "sorted" => answer.value = SortByValue(fresh, answer.of)
            /\ pc = "hashed" => answer = Hash(fresh)
            /\ pc = "filtered" => answer.result = Filter(fresh, param, answer.only).result

\* a record matched after a sort key was read from another record, a key and
\* a parameter were extracted: the match is the one of the where clause alone
C18_Witness ==
    /\ pc = "filtered"
    /\ text = QueryText(Star, CmpI, Sp \o SortBy \o Sp \o <<"s">>)
    /\ lastRecord = RecY
    /\ lastMatch = "false"
    /\ param = <<RecY, RecX>>
    /\ answer.result = <<RecX>>

\* the identifier's first segment is the root type's lowercased name
BeginsWithRoot(colName) ==
    \E root \in {ToLower(RootTypeName)} :
        \/ colName = root
        \/ /\ Len(colName) > Len(root)
           /\ SubSeq(colName, 1, Len(root) + 1) = root \o <<".">>

\* C19: the root type's lowercased name and a dot are prepended exactly when
\* the identifier does not begin with the root-type segment: an identifier
\* that begins with it is unchanged, every other one is prefixed, also when
\* it holds the root type's name further on.
C19_Qualified ==
    pc = "qualified" =>
        answer = IF BeginsWithRoot(param) THEN param
                 ELSE ToLower(RootTypeName) \o <<".">> \o param

\* C20: a where clause parses to the same tree (same operators, same left
\* and right operands) or the same refusal whatever the letter case of its
\* keyword: " in " and " not in " like " and " and " or ".
C20_KeywordCase ==
    [][(pc = "start" /\ pc' = "parsed") =>
         \E lower \in {init(ToLower(text'))} :
            /\ perr' = lower.e
            /\ perr' = NoErr => pquery'.Criteria = lower.v.Criteria]_vars

\* s is at least two characters long and begins and ends with the quote q
Quoted(s, q) == Len(s) >= 2 /\ s[1] = q /\ s[Len(s)] = q

\* C21: the right operand a comparator stores is the content of the trimmed
\* text in its original letter case when that text is in double quotes, its
\* content without the quotes when it is in single quotes, and its lowercased
\* text when it is not quoted.
C21_Quotes ==
    (/\ pc = "compared"
     /\ answer.e = NoErr
     /\ param.left = <<"a">>
     /\ param.token = Eq
     /\ param.right \in QuoteRights) =>
        \E s \in {TrimSpace(param.right)} :
            IF Quoted(s, "\"") THEN answer.v.Right = Slice(s, 1, Len(s) - 1)
            ELSE IF Quoted(s, "'")
            THEN answer.v.Right \in {Slice(s, 1, Len(s) - 1), ToLower(Slice(s, 1, Len(s) - 1))}
            ELSE answer.v.Right = ToLower(s)

RECURSIVE ConditionShape(_)
ConditionShape(c) ==
    /\ c.Comparator # Nil
    /\ c.Oper \in {NoOp, And, Or}
    /\ (c.Oper # NoOp) <=> (c.Next # Nil)
    /\ c.Next # Nil => ConditionShape(c.Next)

\* every node of the tree has exactly one of condition and child, and a
\* connective exactly when it has a next sibling
RECURSIVE ExpressionShape(_)
ExpressionShape(e) ==
    /\ (e.Condition # Nil) # (e.Child # Nil)
    /\ e.AndOr \in {NoOp, And, Or}
    /\ (e.AndOr # NoOp) <=> (e.Next # Nil)
    /\ e.Condition # Nil => ConditionShape(e.Condition)
    /\ e.Child # Nil => ExpressionShape(e.Child)
    /\ e.Next # Nil => ExpressionShape(e.Next)

\* C23: in every tree a successful parse returns, each node has exactly one
\* of condition and child, a node's connective is " and " or " or " exactly
\* when it has a next sibling, and in every chain each link has a comparator
\* and an operator exactly when it has a next link.
C23_Shape ==
    /\ (pc \in {"parsed", "printed", "reparsed"} /\ perr = NoErr /\ pquery.Criteria # Nil)
           => ExpressionShape(pquery.Criteria)
    /\ (pc = "reparsed" /\ reparsed.e = NoErr) => ExpressionShape(reparsed.v)

\* a group with a chain inside and a sibling behind it
C23_Witness ==
    /\ pc = "parsed"
    /\ text = QueryText(Star, NestedClause, <<>>)
    /\ perr = NoErr
    /\ pquery.Criteria.Child.AndOr = Or
    /\ pquery.Criteria.Child.Child.Condition.Oper = And
    /\ pquery.Criteria.Child.Next.Condition.Oper = NoOp

\* C24: the operator list is filled before the first comparator is parsed:
\* a call of NewCompare sees all eight tokens, and the leaf a=1 parses
\* instead of being refused for want of an operator.
C24_ListReady ==
    pc = "compared" =>
        /\ Len(comparators) = Len(OrderedComparators)
        /\ param.ws = <<"a", "=", "1">> =>
               /\ answer.e = NoErr
               /\ answer.v = [Left |-> <<"a">>, Oper |-> Eq, Right |-> <<"1">>]

\* the order in which a leaf is searched for its operator
TokenOrder ==
    << <<">", "=">>, <<"<", "=">>, <<"!", "=">>, <<"=">>, <<">">>, <<"<">>,
       <<" ", "n", "o", "t", " ", "i", "n", " ">>, <<" ", "i", "n", " ">> >>

\* the positions (from 0) at which tok occurs in ws
Occurrences(tok, ws) ==
    { i \in 0..(Len(ws) - Len(tok)) : SubSeq(ws, i + 1, i + Len(tok)) = tok }

\* what the leaf ws is split into: the first token of the order that occurs
\* in it, at its first occurrence
SplitAt(ws, tok, loc, got) ==
    /\ got.e = NoErr
    /\ got.v.Oper = tok
    /\ got.v.Left = TrimSpace(ToLower(SubSeq(ws, 1, loc)))
    /\ got.v.Right = stripQuotes(TrimSpace(SubSeq(ws, loc + Len(tok) + 1, Len(ws))))

SplitAsOrdered(ws, got) ==
    \E hits \in {{ k \in 1..Len(TokenOrder) : Occurrences(TokenOrder[k], ws) # {} }} :
        IF hits = {} THEN got.e # NoErr
        ELSE \E k \in {Min(hits)} :
                SplitAt(ws, TokenOrder[k], Min(Occurrences(TokenOrder[k], ws)), got)

\* C25: with the operator list in place, NewCompare splits a leaf at the
\* first occurrence of the first of >=, <=, !=, =, >, <, " not in ", " in "
\* that occurs in it: left is the trimmed lowercased text before it, right
\* the trimmed text behind it (unquoted as stripQuotes does), and a leaf with
\* none of the tokens is refused.
C25_OperatorOrder ==
    [][(pc = "start" /\ pc' = "compared" /\ comparators # <<>>)
           => SplitAsOrdered(param'.ws, answer')]_vars

\* a<=1 is split at <=, not at = or <
C25_Witness ==
    /\ pc = "compared"
    /\ param.ws = <<"a", "<", "=", "1">>
    /\ answer.e = NoErr
    /\ answer.v = [Left |-> <<"a">>, Oper |-> LTEQ, Right |-> <<"1">>]

\* s without the single quotes around it
Unquoted(s) == IF Quoted(s, "'") THEN SubSeq(s, 2, Len(s) - 1) ELSE s

\* s[i..j] is a non-empty segment of s between two wildcards (or an end)
IsSegment(s, i, j) ==
    /\ i <= j
    /\ \A n \in i..j : s[n] # "*"
    /\ i = 1 \/ s[i - 1] = "*"
    /\ j = Len(s) \/ s[j + 1] = "*"

\* a segment of z occurs in a
SegmentWithin(a, z) ==
    \E i \in 1..Len(z), j \in 1..Len(z) :
        IsSegment(z, i, j) /\ Occurrences(SubSeq(z, i, j), a) # {}

\* the literals the string kernel sets apart: a lone wildcard on either
\* side, and nil against the empty string
SetApart(a, z) ==
    \/ a = <<"*">> \/ z = <<"*">>
    \/ a = <<"n", "i", "l">> /\ z = <<>>
    \/ z = <<"n", "i", "l">> /\ a = <<>>

\* equality of two strings as stated: lowercased and without their quotes,
\* any segment of a right side with wildcards within the left, else the same
StringsEqual(a, z) ==
    IF \E n \in 1..Len(z) : z[n] = "*" THEN SegmentWithin(a, z) ELSE a = z

\* C26: on two strings, lowercased and without the single quotes around
\* them, Equal is true exactly when a non-empty segment of a right side with
\* wildcards is within the left side, and exactly when the two are the same
\* when the right side has no wildcard (a lone * and nil against the empty
\* string aside); on a slice it is true exactly when it is for an element.
C26_Wildcards ==
    pc = "compared" =>
        IF param.left.k = "slice"
        THEN /\ ~answer.panic =>
                  answer.v = (\E i \in 1..Len(param.left.v) :
                                 \E one \in {eqStringMatcher(param.left.v[i], param.right)} :
                                     ~one.panic /\ one.v)
        ELSE \E a \in {Unquoted(ToLower(param.left.v))}, z \in {Unquoted(ToLower(param.right.v))} :
                ~SetApart(a, z) => (~answer.panic /\ answer.v = StringsEqual(a, z))

\* the clauses of a parsed header
HeaderOf(q) ==
    <<q.Properties, q.RootType, q.Criteria, q.SortBy, q.Limit, q.Page>>

\* C27: white space before or behind a query text changes nothing: the text
\* parses to the header (projection list, root type, where clause, sort-by,
\* limit, page) of the text without it, or is refused as that one is.
C27_Padding ==
    [][(pc = "start" /\ pc' = "parsed") =>
         \E bare \in {init(TrimSpace(text'))} :
            /\ perr' = bare.e
            /\ HeaderOf(pquery') = HeaderOf(bare.v)]_vars

\* the text a chain stands for
RECURSIVE WrittenCondition(_)
WrittenCondition(c) ==
    c.Comparator.Left \o c.Comparator.Oper \o c.Comparator.Right
    \o (IF c.Next # Nil THEN c.Oper \o WrittenCondition(c.Next) ELSE <<>>)

\* the text a tree stands for: its operands, operators and connectives in
\* order, and a pair of parentheses for every group
RECURSIVE Written(_)
Written(e) ==
    (IF e.Condition # Nil THEN WrittenCondition(e.Condition) ELSE <<>>)
    \o (IF e.Child # Nil THEN <<"(">> \o Written(e.Child) \o <<")">> ELSE <<>>)
    \o (IF e.Next # Nil THEN e.AndOr \o Written(e.Next) ELSE <<>>)

\* s in lower case without its blanks and double quotes
RECURSIVE Squash(_)
Squash(s) ==
    IF s = <<>> THEN <<>>
    ELSE IF s[1] \in {" ", "\""} THEN Squash(Tail(s))
    ELSE ToLower(<<s[1]>>) \o Squash(Tail(s))

\* C28: a where clause that parses loses nothing: its characters other than
\* white space are, in order, the operands, operators, connectives and
\* parentheses of the tree; text between a ")" and the next connective, or
\* between a connective and the next "(", makes the parse fail.
C28_NothingDropped ==
    pc = "parsed" =>
        /\ (perr = NoErr /\ pquery.Criteria # Nil)
               => Squash(Written(pquery.Criteria)) = Squash(ClauseOf(text))
        /\ ClauseOf(text) \in {StrayBehindGroup, StrayBeforeGroup} => perr # NoErr

\* an accessor of the comparator c fails on the record rec
FailsOn(c, rec) ==
    \/ c.leftProperty # Nil /\ Get(c.leftProperty, rec).e # NoErr
    \/ c.rightProperty # Nil /\ Get(c.rightProperty, rec).e # NoErr

\* C29: connectives do not cut the evaluation short: when an accessor of any
\* comparator of the where tree fails on the record, match returns (false,
\* error) and Match false, also when a branch joined by " or " is true.
C29_NoShortCircuit ==
    (pc = "matched" /\ lastRecord # Nil) =>
        \E cs \in {ComparatorsOf(query.where)} :
            (\E k \in 1..Len(cs) : FailsOn(cs[k], lastRecord))
                => (lastErr # NoErr /\ lastMatch = "false")

\* s=x holds on the record, and the field of u=2 behind the or cannot be read
C29_Witness ==
    /\ pc = "matched"
    /\ text = QueryText(Star, CmpS \o Or \o CmpU, <<>>)
    /\ lastRecord = RecBroken
    /\ Get([field |-> "s"], lastRecord) = Ok(StrV(<<"x">>))
    /\ lastErr # NoErr
    /\ lastMatch = "false"

\* the number of links from the root of a parsed tree to its deepest node
RECURSIVE ConditionDepth(_)
ConditionDepth(c) == IF c.Next = Nil THEN 0 ELSE 1 + ConditionDepth(c.Next)

RECURSIVE ExpressionDepth(_)
ExpressionDepth(e) ==
    Max({0}
        \cup (IF e.Condition = Nil THEN {} ELSE {1 + ConditionDepth(e.Condition)})
        \cup (IF e.Child = Nil THEN {} ELSE {1 + ExpressionDepth(e.Child)})
        \cup (IF e.Next = Nil THEN {} ELSE {1 + ExpressionDepth(e.Next)}))

\* every call is on a text shorter than the one of the nearest enclosing
\* activation of the same function
Shrinking ==
    pc = "descending" =>
        \A k \in 1..Len(answer.calls) : \E f \in {answer.calls[k]} :
            f.fn \in Recursive => (f.over[f.fn] = -1 \/ Len(f.ws) < f.over[f.fn])

\* the descent ends as parseExpression does, and the tree it leaves is no
\* deeper than the clause is long
Bounded ==
    /\ pc = "returned" =>
         /\ answer.deepest <= Len(param)
         /\ answer.ready => \E r \in {parseExpression(param)} :
                               r.e = NoErr /\ ExpressionDepth(r.v) = answer.deepest
    /\ pc = "refused" =>
         (answer.ready => parseExpression(param).e # NoErr)

====
